---- MODULE Spec2Model ----
(***************************************************************************)
(* Derived-metric logic of the TALENVY analysis scripts:                   *)
(*   - EnhancedSalesAnalysis (enhanced_sales_analysis.py): data            *)
(*     preparation, shipping-interval bucketing, key metrics;              *)
(*   - SalesPerformanceAnalysis (sales_analysis.py): data preparation and  *)
(*     the four analyses, campaign lift among them;                        *)
(*   - the stock dashboard (stock_dashboard.py): calculate_metrics         *)
(*     (daily return, moving averages, RSI) over the loaded table, and the *)
(*     dashboard callbacks;                                                *)
(*   - analyze_new_retail_data.py (the stages of main), clean_retail_data  *)
(*     .py, the sentiment app (/analyze) and healthcare_analysis.py (the   *)
(*     row passed to model.predict).                                       *)
(*                                                                         *)
(* Floating-point values are modelled as exact rationals n/d extended with *)
(* the IEEE specials NaN, +inf and -inf, so that division by zero and NaN  *)
(* propagation behave as in numpy/pandas.  Rounding error is not modelled. *)
(***************************************************************************)
EXTENDS Integers, Sequences, FiniteSets

VARIABLES
    program,    \* which of the repository's independent scripts this run executes
    data,       \* self.data of the analysis object: None or the table held
    metrics,    \* outcome of the last calculate_key_metrics (or None): the
                \* dictionary returned or the exception raised
    analysis,   \* outcome of the last analysis or load call (or None): what it
                \* raised, printed and drew, and the value it returned
    loaded,     \* stock dashboard: the table as read from the CSV (history)
    twin,       \* a second CSV table holding the same rows of ticker SubjectT
    df,         \* stock dashboard: module-level df
    twin_df,    \* df of a run of the dashboard on the second table
    permuted,   \* a CSV table holding the rows of `loaded` in another order
    permuted_df, \* df of a run of the dashboard on that table
    pc,         \* position of the stock dashboard script
    requests,   \* dashboard: per thread, the callback in progress or last
                \* answered, with its arguments and its response
    frames,     \* dashboard: the filtered_df of the calls in progress
    run,        \* analyze_new_retail_data.main: its position, the data file
                \* and what each stage does on it, the chart windows still
                \* open and what it printed
    cleaning,   \* clean_retail_data: the table read and the table returned
    sentiments, \* sentiment app: the request of /analyze and its response
    prediction  \* healthcare dashboard: the selection, the entries and the
                \* row passed to model.predict

vars == <<program, data, metrics, analysis, loaded, twin, df, twin_df, permuted,
         permuted_df, pc, requests, frames, run, cleaning, sentiments, prediction>>

salesVars == <<data, metrics, analysis>>
stockVars == <<loaded, twin, df, twin_df, permuted, permuted_df, pc, requests, frames>>
scriptVars == <<run, cleaning, sentiments, prediction>>

(***************************************************************************)
(* Floating-point values                                                   *)
(***************************************************************************)
Num(x) == [k |-> "num", n |-> x, d |-> 1]
Rat(x, y) == [k |-> "num", n |-> x, d |-> y]
NaN == [k |-> "nan", n |-> 0, d |-> 1]
PosInf == [k |-> "inf", n |-> 1, d |-> 1]
NegInf == [k |-> "inf", n |-> -1, d |-> 1]

IsNum(a) == a.k = "num"
IsNaN(a) == a.k = "nan"
IsInf(a) == a.k = "inf"

\* sign of a non-NaN value
Sign(a) == IF a.n > 0 THEN 1 ELSE IF a.n < 0 THEN -1 ELSE 0

\* numeric equality; NaN equals nothing (used only by the properties)
FEq(a, b) ==
    IF IsNum(a) /\ IsNum(b) THEN a.n * b.d = b.n * a.d
    ELSE IsInf(a) /\ IsInf(b) /\ a.n = b.n

FLess(a, b) ==
    IF IsNaN(a) \/ IsNaN(b) THEN FALSE
    ELSE IF IsNum(a) /\ IsNum(b) THEN a.n * b.d < b.n * a.d
    ELSE IF IsInf(a) THEN a.n < 0 /\ ~(IsInf(b) /\ b.n < 0)
    ELSE b.n > 0

FNeg(a) == IF IsNaN(a) THEN NaN ELSE [a EXCEPT !.n = -a.n]

FAdd(a, b) ==
    IF IsNaN(a) \/ IsNaN(b) THEN NaN
    ELSE IF IsNum(a) /\ IsNum(b) THEN Rat(a.n * b.d + b.n * a.d, a.d * b.d)
    ELSE IF IsInf(a) /\ IsInf(b) THEN (IF a.n = b.n THEN a ELSE NaN)
    ELSE IF IsInf(a) THEN a ELSE b

FSub(a, b) == FAdd(a, FNeg(b))

FMul(a, b) ==
    IF IsNaN(a) \/ IsNaN(b) THEN NaN
    ELSE IF IsNum(a) /\ IsNum(b) THEN Rat(a.n * b.n, a.d * b.d)
    ELSE IF Sign(a) * Sign(b) = 0 THEN NaN
    ELSE IF Sign(a) * Sign(b) > 0 THEN PosInf ELSE NegInf

\* IEEE division: x/0 is +-inf, 0/0 and inf/inf are NaN, x/inf is 0.
\* (The sign of a zero divisor is not tracked; it only decides the sign of
\* the infinity.)
FDiv(a, b) ==
    IF IsNaN(a) \/ IsNaN(b) THEN NaN
    ELSE IF IsInf(b) THEN (IF IsInf(a) THEN NaN ELSE Num(0))
    ELSE IF b.n = 0 THEN
        (IF Sign(a) = 0 THEN NaN ELSE IF Sign(a) > 0 THEN PosInf ELSE NegInf)
    ELSE IF IsInf(a) THEN (IF Sign(a) * Sign(b) > 0 THEN PosInf ELSE NegInf)
    ELSE IF b.n > 0 THEN Rat(a.n * b.d, a.d * b.n)
    ELSE Rat(-(a.n * b.d), a.d * (-b.n))

None == [k |-> "none"]

(***************************************************************************)
(* Generic sequence helpers                                                *)
(***************************************************************************)
RECURSIVE SumSeq(_)
SumSeq(s) == IF s = <<>> THEN 0 ELSE s[1] + SumSeq(Tail(s))

\* a missing cell of a text column, and the values fillna puts in its place
NullCell == "NaN"

\* What a call did besides returning a value: the exception it raised ("none"
\* when it returned), the message printed, the figures drawn.  (save_plot
\* only decides whether a drawn figure is also written to reports/.)
NoCall == [op |-> "none", raised |-> "none", message |-> "", printed |-> "", charts |-> {}]
Raised(op, error, message) ==
    [op |-> op, raised |-> error, message |-> message, printed |-> "", charts |-> {}]
Completed(op, printed, charts) ==
    [op |-> op, raised |-> "none", message |-> "", printed |-> printed, charts |-> charts]

\* Series.round(decimals), scale = 10^decimals: to the nearest multiple of
\* 1/scale, ties to the even one
Round(x, scale) ==
    IF ~IsNum(x) THEN x
    ELSE LET q == (scale * x.n) \div x.d
             r == (scale * x.n) % x.d
         IN IF 2 * r < x.d THEN Rat(q, scale)
            ELSE IF 2 * r > x.d THEN Rat(q + 1, scale)
            ELSE IF q % 2 = 0 THEN Rat(q, scale) ELSE Rat(q + 1, scale)

\* Series.sum(): NaN entries are skipped; the sum of nothing is 0
RECURSIVE SeriesSum(_)
SeriesSum(col) ==
    IF col = <<>> THEN Num(0)
    ELSE IF IsNaN(col[1]) THEN SeriesSum(Tail(col))
    ELSE FAdd(col[1], SeriesSum(Tail(col)))

\* Series.count(): the entries that are not NaN
SeriesCount(col) == Len(SelectSeq(col, LAMBDA x : ~IsNaN(x)))

\* Series.mean(): NaN entries are skipped; the mean of nothing is NaN
SeriesMean(col) == FDiv(SeriesSum(col), Num(SeriesCount(col)))

Restrict(row, columns) == [c \in columns |-> row[c]]

(***************************************************************************)
(* EnhancedSalesAnalysis                                                   *)
(***************************************************************************)
MaxSalesRows == 3

NaT == NaN

ShippingLabels == <<"Within 7 days", "Within 30 days", "After 30 days">>
ShippingBins == <<Num(0), Num(7), Num(30), PosInf>>
NoLabel == "NaN"

\* variant of Cut with right=False: bucket i is [bins[i], bins[i+1])
CutLeftClosed(x, bins, labels) ==
    IF \E i \in DOMAIN labels : ~FLess(x, bins[i]) /\ FLess(x, bins[i + 1])
    THEN labels[CHOOSE i \in DOMAIN labels :
                    ~FLess(x, bins[i]) /\ FLess(x, bins[i + 1])]
    ELSE NoLabel

\* pd.cut(x, bins, labels) with the defaults right=True, include_lowest=False:
\* bucket i is the interval (bins[i], bins[i+1]]; a value in no bucket, or a
\* missing value, gets the null category.
Cut(x, bins, labels) ==
    IF IsNaN(x) THEN NoLabel
    ELSE IF \E i \in DOMAIN labels : FLess(bins[i], x) /\ ~FLess(bins[i + 1], x)
    THEN labels[CHOOSE i \in DOMAIN labels :
                    FLess(bins[i], x) /\ ~FLess(bins[i + 1], x)]
    ELSE NoLabel

\* Series.value_counts() of a categorical column: the null category is
\* dropped, every category is listed
ValueCounts(col, labels) ==
    [l \in {labels[i] : i \in DOMAIN labels} |->
        Cardinality({i \in DOMAIN col : col[i] = l})]

\* variant of ValueCountsNormalized with dropna=False: counts divided by the
\* number of all entries
ValueCountsKeepNull(col, labels) ==
    [l \in {labels[i] : i \in DOMAIN labels} |->
        FDiv(Num(Cardinality({i \in DOMAIN col : col[i] = l})), Num(Len(col)))]

\* Series.value_counts(normalize=True): each count divided by the number of
\* non-null entries (0/0 = NaN when there is none)
ValueCountsNormalized(col, labels) ==
    LET counts == ValueCounts(col, labels)
        total == SumSeq([i \in DOMAIN labels |-> counts[labels[i]]])
    IN [l \in DOMAIN counts |-> FDiv(Num(counts[l]), Num(total))]

Column(table, name) == [i \in DOMAIN table.rows |-> table.rows[i][name]]

\* DataFrame.groupby(key): the keys present (rows with a missing key are
\* dropped) and the measure of the rows of one key
GroupKeys(table, key) ==
    {table.rows[i][key] : i \in DOMAIN table.rows} \ {NullCell}

GroupColumn(table, key, g, measure) ==
    LET rows == SelectSeq(table.rows, LAMBDA r : r[key] = g)
    IN [i \in DOMAIN rows |-> rows[i][measure]]

\* The tables a CSV file can hold: with or without the order_date/ship_date
\* columns; dates are day numbers, NaT a missing date.
ShipOffsets == {-1, 0, 3, 7, 8, 30, 31, 45}
ShipDates == {Num(10 + o) : o \in ShipOffsets} \cup {NaT}

DatedRows ==
    {[order_date |-> Num(10), ship_date |-> s] : s \in ShipDates}
    \cup {[order_date |-> NaT, ship_date |-> Num(17)]}
UndatedRows == [order_id : {1}]

\* the example of the specification: shipping days 3, 10, 45, 0, 7
ExampleShippingDays == <<3, 10, 45, 0, 7>>
ExampleTable ==
    [columns |-> {"order_date", "ship_date"},
     rows |-> [i \in DOMAIN ExampleShippingDays |->
                  [order_date |-> Num(10),
                   ship_date |-> Num(10 + ExampleShippingDays[i])]]]

\* tables holding any of the optional columns
EnhancedColumns ==
    {"sales_amount", "cost", "profit", "order_date", "ship_date", "shipping_days",
     "channel"}
EnhancedRows ==
    <<[sales_amount |-> Num(100), cost |-> Num(60), profit |-> Num(40),
       order_date |-> Num(10), ship_date |-> Num(13), shipping_days |-> Num(3),
       channel |-> "Online"],
      [sales_amount |-> Num(50), cost |-> NaN, profit |-> Num(20),
       order_date |-> Num(10), ship_date |-> Num(50), shipping_days |-> Num(40),
       channel |-> "Retail"]>>
OptionalTables ==
    {[columns |-> S, rows |-> [i \in DOMAIN EnhancedRows |-> Restrict(EnhancedRows[i], S)]] :
        S \in (SUBSET EnhancedColumns) \ {{}}}

CsvTables(max_rows) ==
    UNION {{[columns |-> {"order_date", "ship_date"}, rows |-> r] :
                r \in [1..n -> DatedRows]} : n \in 0..max_rows}
    \cup {[columns |-> {"order_id"}, rows |-> r] :
                r \in UNION {[1..n -> UndatedRows] : n \in 0..max_rows}}
    \cup {ExampleTable}
    \cup OptionalTables

\* lines 72-81 of _prepare_data: shipping_days = (ship_date - order_date).dt.days
\* and its bucket.  (The year/month/quarter/day_of_week columns of lines 65-70
\* are added as columns; their calendar values play no part here.)
Enhanced_prepare_data(table) ==
    LET withParts ==
            IF "order_date" \in table.columns
            THEN [table EXCEPT !.columns =
                      @ \cup {"year", "month", "quarter", "day_of_week"}]
            ELSE table
    IN IF "order_date" \in table.columns /\ "ship_date" \in table.columns
       THEN [columns |-> withParts.columns \cup {"shipping_days", "shipping_interval"},
             rows |-> [i \in DOMAIN table.rows |->
                 LET r == table.rows[i]
                     days == FSub(r.ship_date, r.order_date)
                 IN [c \in DOMAIN r \cup {"shipping_days", "shipping_interval"} |->
                        CASE c = "shipping_days" -> days
                          [] c = "shipping_interval" ->
                                 Cut(days, ShippingBins, ShippingLabels)
                          [] OTHER -> r[c]]]]
       ELSE withParts

\* next((col for col in columns if <word> in col.lower()), None): the first
\* column whose name contains one of the words, "" standing for None.  (No
\* table here has two such columns, so the order of the columns is not kept.)
NoColumn == ""
SalesLike == {"sales_amount", "revenue"}
CostLike == {"cost", "cogs"}
ProfitLike == {"profit"}
ChannelLike == {"channel"}
FirstColumn(columns, names) ==
    IF columns \cap names = {} THEN NoColumn ELSE CHOOSE c \in columns \cap names : TRUE

\* calculate_key_metrics: the dictionary returned, or the exception raised
Calculate_key_metrics(table) ==
    LET sales_col == FirstColumn(table.columns, SalesLike)
        cost_col == FirstColumn(table.columns, CostLike)
        profit_col == FirstColumn(table.columns, ProfitLike)
        shipping == "shipping_days" \in table.columns
        total_sales == SeriesSum(Column(table, sales_col))
        total_cost == SeriesSum(Column(table, cost_col))
        keys == {"total_transactions"}
                \cup (IF sales_col # NoColumn THEN {"total_sales", "avg_sale"} ELSE {})
                \cup (IF cost_col # NoColumn THEN {"total_cost"} ELSE {})
                \cup (IF profit_col # NoColumn \/ (sales_col # NoColumn /\ cost_col # NoColumn)
                      THEN {"total_profit"} ELSE {})
                \cup (IF shipping
                      THEN {"avg_shipping_days", "pct_shipped_within_7_days",
                            "pct_shipped_within_30_days", "pct_shipped_after_30_days"}
                      ELSE {})
        shipping_counts ==
            ValueCountsNormalized(Column(table, "shipping_interval"), ShippingLabels)
    IN IF shipping /\ "shipping_interval" \notin table.columns
       THEN Raised("calculate_key_metrics", "KeyError", "shipping_interval")
       ELSE [key \in keys |->
               CASE key = "total_sales" -> total_sales
                 [] key = "avg_sale" -> SeriesMean(Column(table, sales_col))
                 [] key = "total_cost" -> total_cost
                 [] key = "total_profit" ->
                        IF profit_col # NoColumn THEN SeriesSum(Column(table, profit_col))
                        ELSE FSub(total_sales, total_cost)
                 [] key = "total_transactions" -> Len(table.rows)
                 [] key = "avg_shipping_days" -> SeriesMean(Column(table, "shipping_days"))
                 [] key = "pct_shipped_within_7_days" ->
                        FMul(shipping_counts["Within 7 days"], Num(100))
                 [] key = "pct_shipped_within_30_days" ->
                        FMul(shipping_counts["Within 30 days"], Num(100))
                 [] OTHER -> FMul(shipping_counts["After 30 days"], Num(100))]

\* shipping_interval_analysis: counts and percentages (rounded to 1 decimal
\* in the source; the exact quotient is kept here) per interval, or None
Shipping_interval_analysis(table) ==
    IF "shipping_interval" \notin table.columns THEN None
    ELSE LET interval_counts ==
                 ValueCounts(Column(table, "shipping_interval"), ShippingLabels)
             total == SumSeq([i \in DOMAIN ShippingLabels |->
                                 interval_counts[ShippingLabels[i]]])
         IN [k |-> "frame",
             Count |-> interval_counts,
             Percentage |-> [l \in DOMAIN interval_counts |->
                 FMul(FDiv(Num(interval_counts[l]), Num(total)), Num(100))]]

\* what shipping_interval_analysis prints and draws
Shipping_interval_call(table) ==
    IF "shipping_interval" \notin table.columns
    THEN Completed("shipping_interval_analysis", "Shipping interval data not available.", {})
    ELSE Completed("shipping_interval_analysis", "", {"shipping_interval_analysis"})

\* sales_by_channel(metric): the metric summed (or the rows counted) per
\* sales channel
ChannelMetrics == {"sales", "profit", "cogs", "transactions"}

Sales_by_channel(table, metric) ==
    LET channel_col == FirstColumn(table.columns, ChannelLike)
        metric_col ==
            CASE metric = "sales" -> FirstColumn(table.columns, SalesLike)
              [] metric = "profit" -> FirstColumn(table.columns, ProfitLike)
              [] metric = "cogs" -> FirstColumn(table.columns, CostLike)
              [] OTHER -> NoColumn
    IN IF channel_col = NoColumn
       THEN [call |-> Completed("sales_by_channel", "Sales channel data not available.", {}),
             value |-> None]
       ELSE IF metric_col = NoColumn /\ metric # "transactions"
       THEN [call |-> Completed("sales_by_channel", metric \o " data not available.", {}),
             value |-> None]
       ELSE [call |-> Completed("sales_by_channel", "", {"by_sales_channel"}),
             value |-> [k |-> "series",
                        values |-> [g \in GroupKeys(table, channel_col) |->
                            IF metric = "transactions"
                            THEN Num(Len(GroupColumn(table, channel_col, g, channel_col)))
                            ELSE SeriesSum(GroupColumn(table, channel_col, g, metric_col))]]]

(***************************************************************************)
(* SalesPerformanceAnalysis (sales_analysis.py)                            *)
(***************************************************************************)
Baseline == "No Campaign"
UnknownRegion == "Unknown"

\* a parsed date with the parts _prepare_data reads from it
Date(y, m, wd) == [k |-> "date", year |-> y, month |-> m, weekday |-> wd]
IsNaT(date) == date.k = "nan"
Year(date) == IF IsNaT(date) THEN NaN ELSE Num(date.year)
Month(date) == IF IsNaT(date) THEN NaN ELSE Num(date.month)
Quarter(date) == IF IsNaT(date) THEN NaN ELSE Num((date.month - 1) \div 3 + 1)
DayOfWeek(date) == IF IsNaT(date) THEN NaN ELSE Num(date.weekday)

\* The files SalesPerformanceAnalysis can be given.  A row is decided by its
\* campaign and its amount; every table holds a subset of the columns.
CampaignCells ==
    {[campaign_id |-> Baseline, sales_amount |-> Num(0)],
     [campaign_id |-> Baseline, sales_amount |-> Num(10)],
     [campaign_id |-> Baseline, sales_amount |-> NaN],
     [campaign_id |-> NullCell, sales_amount |-> Num(30)],
     [campaign_id |-> "Summer Sale", sales_amount |-> Num(0)],
     [campaign_id |-> "Summer Sale", sales_amount |-> Num(10)],
     [campaign_id |-> "Summer Sale", sales_amount |-> Num(25)],
     [campaign_id |-> "Holiday Season", sales_amount |-> Num(43)],
     [campaign_id |-> "Holiday Season", sales_amount |-> NaN]}

SalesRow(cell) ==
    [sale_date |-> IF cell.campaign_id = "Holiday Season" THEN Date(2023, 12, 4)
                   ELSE IF cell.campaign_id = "Summer Sale" THEN Date(2023, 7, 0)
                   ELSE IF cell.campaign_id = NullCell THEN NaT
                   ELSE Date(2022, 2, 6),
     category |-> IF IsNaN(cell.sales_amount) THEN NullCell
                  ELSE IF FLess(cell.sales_amount, Num(20)) THEN "Books"
                  ELSE "Electronics",
     region |-> IF cell.campaign_id = "Summer Sale" THEN NullCell ELSE "North",
     campaign_id |-> cell.campaign_id,
     quantity |-> Num(3),
     price |-> FDiv(cell.sales_amount, Num(2)),
     sales_amount |-> cell.sales_amount]

AllSalesColumns == {"sale_date", "category", "region", "campaign_id", "sales_amount"}

\* the column sets of the files: every column, one column missing, or the
\* amount left to be derived from quantity and price
SalesColumnSets ==
    {AllSalesColumns}
    \cup {AllSalesColumns \ {c} : c \in AllSalesColumns}
    \cup {(AllSalesColumns \ {"sales_amount"}) \cup {"quantity", "price"},
          (AllSalesColumns \ {"sales_amount"}) \cup {"quantity"},
          AllSalesColumns \cup {"quantity", "price"}}

SalesTable(columns, cells) ==
    [columns |-> columns,
     rows |-> [i \in DOMAIN cells |-> Restrict(SalesRow(cells[i]), columns)]]

MixedCells ==
    <<[campaign_id |-> Baseline, sales_amount |-> Num(10)],
      [campaign_id |-> "Summer Sale", sales_amount |-> Num(25)],
      [campaign_id |-> NullCell, sales_amount |-> Num(30)]>>

SalesCsvTables(max_rows) ==
    UNION {{SalesTable(AllSalesColumns, cells) : cells \in [1..n -> CampaignCells]} :
               n \in 0..max_rows}
    \cup {SalesTable(columns, MixedCells) : columns \in SalesColumnSets}

\* a sale_date cell whose text is not a date, and a table holding one
Unparseable == [k |-> "text"]
BadDateTable ==
    LET table == SalesTable(AllSalesColumns, MixedCells)
    IN [table EXCEPT !.rows[1].sale_date = Unparseable]

\* a file: the extension of its name and the table it holds
SalesFiles(max_rows) ==
    {[extension |-> ".csv", table |-> t] : t \in SalesCsvTables(max_rows)}
    \cup {[extension |-> e, table |-> SalesTable(AllSalesColumns, MixedCells)] :
              e \in {".xlsx", ".json"}}
    \cup {[extension |-> ".csv", table |-> BadDateTable]}

\* the files of a second load attempt on the same object
ReloadFiles ==
    {[extension |-> ".csv", table |-> BadDateTable],
     [extension |-> ".json", table |-> SalesTable(AllSalesColumns, MixedCells)],
     [extension |-> ".csv",
      table |-> SalesTable(AllSalesColumns \cup {"quantity", "price"}, MixedCells)],
     [extension |-> ".xlsx",
      table |-> SalesTable((AllSalesColumns \ {"sales_amount"}) \cup {"quantity", "price"},
                           MixedCells)]}

\* what the database answers to the query of load_data_from_sql: the columns
\* of the default query that the analyses read, or a failed connection
SqlColumns == {"sale_date", "category", "quantity", "price", "region", "campaign_id"}
SqlResults ==
    {[error |-> "none", table |-> SalesTable(SqlColumns, MixedCells)],
     [error |-> "none", table |-> [SalesTable(SqlColumns, MixedCells)
                                      EXCEPT !.rows[3].sale_date = Unparseable]],
     [error |-> "OperationalError", table |-> None]}
ConnectionStrings == {"", "sqlite:///sales.db"}

\* _prepare_data: date parts of sale_date, sales_amount = quantity * price
\* when the source has none, missing campaign_id and region filled in
Sales_prepare_data(table) ==
    LET hasDate == "sale_date" \in table.columns
        derive == /\ "sales_amount" \notin table.columns
                  /\ "quantity" \in table.columns
                  /\ "price" \in table.columns
        columns == table.columns
                   \cup (IF hasDate THEN {"year", "month", "quarter", "day_of_week"} ELSE {})
                   \cup (IF derive THEN {"sales_amount"} ELSE {})
        Cell(r, c) ==
            CASE c = "year" /\ hasDate -> Year(r.sale_date)
              [] c = "month" /\ hasDate -> Month(r.sale_date)
              [] c = "quarter" /\ hasDate -> Quarter(r.sale_date)
              [] c = "day_of_week" /\ hasDate -> DayOfWeek(r.sale_date)
              [] c = "sales_amount" /\ derive -> FMul(r.quantity, r.price)
              [] c = "campaign_id" /\ r[c] = NullCell -> Baseline
              [] c = "region" /\ r[c] = NullCell -> UnknownRegion
              [] OTHER -> r[c]
    IN [columns |-> columns,
        rows |-> [i \in DOMAIN table.rows |->
                     [c \in columns |-> Cell(table.rows[i], c)]]]

\* pd.to_datetime(self.data['sale_date']) raises on a text that is no date
To_datetime_raises(table) ==
    /\ "sale_date" \in table.columns
    /\ \E i \in DOMAIN table.rows : table.rows[i].sale_date.k = "text"

\* self.data = pd.read_csv(...) (lines 36, 38, 53, 77): self.data when
\* _prepare_data raises after the table was read
Read_into(current, table) == table

\* lines 42-43 and 79-80: _prepare_data on the table read, then the message
Prepare_and_report(op, current, table) ==
    IF To_datetime_raises(table)
    THEN [data |-> Read_into(current, table),
          call |-> Raised(op, "ValueError", "Unknown datetime string format")]
    ELSE [data |-> Sales_prepare_data(table),
          call |-> Completed(op, "Data loaded successfully", {})]

\* load_data_from_file on an object whose self.data is `current`
Load_data_from_file(file, current) ==
    IF file.extension \in {".csv", ".xlsx", ".xls"}
    THEN Prepare_and_report("load_data_from_file", current, file.table)
    ELSE [data |-> current,
          call |-> Raised("load_data_from_file", "ValueError",
                          "Unsupported file format. Please use CSV or Excel files.")]

\* load_data_from_sql on an object built with the given connection string
Load_data_from_sql(connection_string, result, current) ==
    IF connection_string = ""
    THEN [data |-> current,
          call |-> Raised("load_data_from_sql", "ValueError",
                          "SQL connection string not provided")]
    ELSE IF result.error # "none"
    THEN [data |-> current, call |-> Raised("load_data_from_sql", result.error, "")]
    ELSE Prepare_and_report("load_data_from_sql", current, result.table)

\* monthly_sales_trend: total per (year, month) of sale_date, then the
\* quarterly totals of _analyze_seasonality
Monthly_sales_trend(table) ==
    IF table = None
    THEN [call |-> Raised("monthly_sales_trend", "ValueError",
                          "Data not loaded. Please load data first."),
          value |-> None]
    ELSE IF "sale_date" \notin table.columns
    THEN [call |-> Raised("monthly_sales_trend", "KeyError", "sale_date"), value |-> None]
    ELSE IF To_datetime_raises(table)
    THEN [call |-> Raised("monthly_sales_trend", "AttributeError",
                          "Can only use .dt accessor with datetimelike values"),
          value |-> None]
    ELSE IF "sales_amount" \notin table.columns
    THEN [call |-> Raised("monthly_sales_trend", "KeyError",
                          "Column not found: sales_amount"),
          value |-> None]
    ELSE LET dated == SelectSeq(table.rows, LAMBDA r : ~IsNaN(r.year))
             months == {<<dated[i].year, dated[i].month>> : i \in DOMAIN dated}
             Amounts(ym) ==
                 LET rows == SelectSeq(dated, LAMBDA r : <<r.year, r.month>> = ym)
                 IN [i \in DOMAIN rows |-> rows[i].sales_amount]
         IN [call |-> Completed("monthly_sales_trend",
                                "Monthly sales trend plot saved to reports/monthly_sales_trend.png",
                                {"monthly_sales_trend", "quarterly_sales_seasonality"}),
             value |-> [k |-> "frame",
                        rows |-> {[year |-> ym[1], month |-> ym[2],
                                   sales_amount |-> SeriesSum(Amounts(ym))] :
                                      ym \in months}]]

\* product_category_analysis: total sales per category
Product_category_analysis(table) ==
    IF table = None \/ "category" \notin table.columns
    THEN [call |-> Raised("product_category_analysis", "ValueError",
                          "Data not loaded or missing category information"),
          value |-> None]
    ELSE IF "sales_amount" \notin table.columns
    THEN [call |-> Raised("product_category_analysis", "KeyError",
                          "Column not found: sales_amount"),
          value |-> None]
    ELSE [call |-> Completed("product_category_analysis",
                             "Product category analysis saved to reports/top_product_categories.png",
                             {"top_product_categories"}),
          value |-> [k |-> "series",
                     values |-> [g \in GroupKeys(table, "category") |->
                         SeriesSum(GroupColumn(table, "category", g, "sales_amount"))]]]

\* regional_sales_analysis: total sales per region and its share of the total
Regional_sales_analysis(table) ==
    IF table = None \/ "region" \notin table.columns
    THEN [call |-> Raised("regional_sales_analysis", "ValueError",
                          "Data not loaded or missing region information"),
          value |-> None]
    ELSE IF "sales_amount" \notin table.columns
    THEN [call |-> Raised("regional_sales_analysis", "KeyError",
                          "Column not found: sales_amount"),
          value |-> None]
    ELSE LET region_sales ==
                 [g \in GroupKeys(table, "region") |->
                     SeriesSum(GroupColumn(table, "region", g, "sales_amount"))]
             total_sales == SeriesSum(Column(table, "sales_amount"))
         IN [call |-> Completed("regional_sales_analysis",
                                "Regional sales analysis saved to reports/regional_sales_distribution.png",
                                {"regional_sales_distribution"}),
             value |-> [k |-> "frame",
                        Total_Sales |-> region_sales,
                        Percentage |-> [g \in DOMAIN region_sales |->
                            Round(FMul(FDiv(region_sales[g], total_sales), Num(100)), 10)]]]

\* variant of ComputeLift without the test of line 294
ComputeLiftAlways(campaigns) == TRUE

\* line 294: the lift is computed when 'No Campaign' is among the groups
ComputeLift(campaigns) == Baseline \in campaigns

\* a local name that was never assigned
Unbound == [k |-> "unbound"]

\* marketing_campaign_impact: sum, mean and count of sales_amount per
\* campaign, and each campaign's lift over the mean sale of 'No Campaign'
\* when that campaign is among the groups.  (The order of the rows, by
\* falling total, is not kept: the result maps each campaign to its row.)
Marketing_campaign_impact(table) ==
    IF table = None \/ "campaign_id" \notin table.columns
    THEN [call |-> Raised("marketing_campaign_impact", "ValueError",
                          "Data not loaded or missing campaign information"),
          value |-> None]
    ELSE IF "sales_amount" \notin table.columns
    THEN [call |-> Raised("marketing_campaign_impact", "KeyError",
                          "Column not found: sales_amount"),
          value |-> None]
    ELSE LET keys == GroupKeys(table, "campaign_id")
             campaign_sales ==
                 [g \in keys |->
                     LET amounts == GroupColumn(table, "campaign_id", g, "sales_amount")
                     IN [total_sales |-> SeriesSum(amounts),
                         avg_sale |-> SeriesMean(amounts),
                         num_transactions |-> SeriesCount(amounts)]]
             no_campaign_data ==
                 IF Baseline \in keys THEN campaign_sales[Baseline] ELSE Unbound
             printed == "Marketing campaign analysis saved to reports/marketing_campaign_impact.png"
         IN IF ~ComputeLift(keys)
            THEN [call |-> Completed("marketing_campaign_impact", printed,
                                     {"marketing_campaign_impact"}),
                  value |-> [k |-> "frame",
                             columns |-> {"total_sales", "avg_sale", "num_transactions"},
                             rows |-> campaign_sales]]
            ELSE IF no_campaign_data = Unbound
            THEN [call |-> [Raised("marketing_campaign_impact", "UnboundLocalError",
                                   "no_campaign_data")
                               EXCEPT !.printed = printed,
                                      !.charts = {"marketing_campaign_impact"}],
                  value |-> None]
            ELSE LET baseline == no_campaign_data.avg_sale
                 IN [call |-> Completed("marketing_campaign_impact", printed,
                                        {"marketing_campaign_impact"}),
                     value |-> [k |-> "frame",
                                columns |-> {"total_sales", "avg_sale",
                                             "num_transactions", "sales_lift_pct"},
                                rows |-> [g \in keys |->
                                    [total_sales |-> campaign_sales[g].total_sales,
                                     avg_sale |-> campaign_sales[g].avg_sale,
                                     num_transactions |-> campaign_sales[g].num_transactions,
                                     sales_lift_pct |->
                                         Round(FMul(FDiv(FSub(campaign_sales[g].avg_sale,
                                                              baseline),
                                                         baseline),
                                                    Num(100)), 100)]]]]

\* generate_comprehensive_report: the four analyses in turn, then the
\* summary statistics and the Excel workbook
Generate_comprehensive_report(table) ==
    IF table = None
    THEN [call |-> Raised("generate_comprehensive_report", "ValueError",
                          "Data not loaded. Please load data first."),
          value |-> None]
    ELSE LET calls == <<Monthly_sales_trend(table).call,
                        Product_category_analysis(table).call,
                        Regional_sales_analysis(table).call,
                        Marketing_campaign_impact(table).call>>
             failed == {i \in DOMAIN calls : calls[i].raised # "none"}
             first == CHOOSE i \in failed : \A j \in failed : i <= j
             Charts(n) == UNION {calls[i].charts : i \in 1..n}
         IN IF failed # {}
            THEN [call |-> [op |-> "generate_comprehensive_report",
                            raised |-> calls[first].raised,
                            message |-> calls[first].message,
                            printed |-> "Generating comprehensive sales analysis report...",
                            charts |-> Charts(first)],
                  value |-> None]
            ELSE [call |-> Completed("generate_comprehensive_report",
                                     "Comprehensive sales analysis report generated",
                                     Charts(Len(calls)) \cup {"sales_analysis_report.xlsx"}),
                  value |-> [total_sales |-> SeriesSum(Column(table, "sales_amount")),
                             avg_sale |-> SeriesMean(Column(table, "sales_amount")),
                             total_transactions |-> Len(table.rows)]]

\* the variables of the scripts that this run does not execute
NoScript ==
    /\ run = None
    /\ cleaning = None
    /\ sentiments = None
    /\ prediction = None

InitSales ==
    /\ program \in {"enhanced_sales_analysis", "sales_analysis"}
    /\ data = None
    /\ metrics = None
    /\ analysis = None
    /\ loaded = <<>>
    /\ twin = <<>>
    /\ df = <<>>
    /\ twin_df = <<>>
    /\ permuted = <<>>
    /\ permuted_df = <<>>
    /\ pc = "idle"
    /\ requests = <<>>
    /\ frames = <<>>
    /\ NoScript

\* EnhancedSalesAnalysis(data_source=...): load_data reads the file and
\* prepares it
LoadData ==
    /\ program = "enhanced_sales_analysis"
    /\ data = None
    /\ \E table \in CsvTables(MaxSalesRows) : data' = Enhanced_prepare_data(table)
    /\ UNCHANGED <<program, metrics, analysis>>
    /\ UNCHANGED stockVars
    /\ UNCHANGED scriptVars

CalculateKeyMetrics ==
    /\ program = "enhanced_sales_analysis"
    /\ data # None
    /\ metrics' = Calculate_key_metrics(data)
    /\ UNCHANGED <<program, data, analysis>>
    /\ UNCHANGED stockVars
    /\ UNCHANGED scriptVars

ShippingIntervalAnalysis ==
    /\ program = "enhanced_sales_analysis"
    /\ data # None
    /\ analysis' = [call |-> Shipping_interval_call(data),
                    value |-> Shipping_interval_analysis(data)]
    /\ UNCHANGED <<program, data, metrics>>
    /\ UNCHANGED stockVars
    /\ UNCHANGED scriptVars

SalesByChannel ==
    /\ program = "enhanced_sales_analysis"
    /\ data # None
    /\ \E metric \in ChannelMetrics : analysis' = Sales_by_channel(data, metric)
    /\ UNCHANGED <<program, data, metrics>>
    /\ UNCHANGED stockVars
    /\ UNCHANGED scriptVars

\* SalesPerformanceAnalysis(data_source=...).load_data_from_file(): the
\* first attempt on any file of the model, a later one on a few
LoadDataFromFile ==
    /\ program = "sales_analysis"
    /\ \E file \in (IF data = None THEN SalesFiles(MaxSalesRows) ELSE ReloadFiles) :
          LET load == Load_data_from_file(file, data)
          IN /\ data' = load.data
             /\ analysis' = [call |-> load.call, value |-> None]
    /\ UNCHANGED <<program, metrics>>
    /\ UNCHANGED stockVars
    /\ UNCHANGED scriptVars

\* SalesPerformanceAnalysis(connection_string=...).load_data_from_sql()
LoadDataFromSql ==
    /\ program = "sales_analysis"
    /\ \E connection_string \in ConnectionStrings, result \in SqlResults :
          LET load == Load_data_from_sql(connection_string, result, data)
          IN /\ data' = load.data
             /\ analysis' = [call |-> load.call, value |-> None]
    /\ UNCHANGED <<program, metrics>>
    /\ UNCHANGED stockVars
    /\ UNCHANGED scriptVars

GenerateComprehensiveReport ==
    /\ program = "sales_analysis"
    /\ analysis' = Generate_comprehensive_report(data)
    /\ UNCHANGED <<program, data, metrics>>
    /\ UNCHANGED stockVars
    /\ UNCHANGED scriptVars

MonthlySalesTrend ==
    /\ program = "sales_analysis"
    /\ analysis' = Monthly_sales_trend(data)
    /\ UNCHANGED <<program, data, metrics>>
    /\ UNCHANGED stockVars
    /\ UNCHANGED scriptVars

ProductCategoryAnalysis ==
    /\ program = "sales_analysis"
    /\ analysis' = Product_category_analysis(data)
    /\ UNCHANGED <<program, data, metrics>>
    /\ UNCHANGED stockVars
    /\ UNCHANGED scriptVars

RegionalSalesAnalysis ==
    /\ program = "sales_analysis"
    /\ analysis' = Regional_sales_analysis(data)
    /\ UNCHANGED <<program, data, metrics>>
    /\ UNCHANGED stockVars
    /\ UNCHANGED scriptVars

MarketingCampaignImpact ==
    /\ program = "sales_analysis"
    /\ analysis' = Marketing_campaign_impact(data)
    /\ UNCHANGED <<program, data, metrics>>
    /\ UNCHANGED stockVars
    /\ UNCHANGED scriptVars

NextSales ==
    \/ LoadData
    \/ CalculateKeyMetrics
    \/ ShippingIntervalAnalysis
    \/ SalesByChannel
    \/ LoadDataFromFile
    \/ LoadDataFromSql
    \/ GenerateComprehensiveReport
    \/ MonthlySalesTrend
    \/ ProductCategoryAnalysis
    \/ RegionalSalesAnalysis
    \/ MarketingCampaignImpact

SpecSales == InitSales /\ [][NextSales]_vars

(***************************************************************************)
(* Stock dashboard: the loaded table and calculate_metrics                 *)
(***************************************************************************)
MaxStockRows == 52
MaxOtherRows == 24

MA20Window == 20
MA50Window == 50
RSIWindow == 14

\* the ticker whose rows the two loaded tables share, and every ticker of the
\* inputs in the order groupby iterates its keys (sorted)
SubjectT == "AAA"
TickerOrder == <<"AA", "AAA", "BBB">>

Max(a, b) == IF a > b THEN a ELSE b
Abs(a) == IF a < 0 THEN -a ELSE a

\* price of the i-th trading day of a series of the given shape
Shapes == {"flat", "rising", "falling", "zigzag", "pulse", "wave", "dip"}
Price(shape, i, n) ==
    CASE shape = "flat" -> 5
      [] shape = "rising" -> 5 + i
      [] shape = "falling" -> 1 + n - i
      [] shape = "zigzag" -> 5 + 2 * (i % 2)
      [] shape = "pulse" -> IF i = 2 THEN 8 ELSE 5
      [] shape = "wave" -> 3 + ((i * i + 3 * i) % 7)
      [] shape = "bounce" -> IF i % 3 = 2 THEN 0 ELSE i
      [] OTHER -> Max(0, Abs(i - 4) - 1)

StockRow(ticker, shape, i, n) ==
    [idx |-> 0, Ticker |-> ticker, Date |-> i, price |-> Price(shape, i, n)]

\* rows of two tickers merged day by day
RECURSIVE ByDay(_, _, _, _, _, _, _)
ByDay(t1, shape1, n1, t2, shape2, n2, day) ==
    IF day > n1 /\ day > n2 THEN <<>>
    ELSE (IF day <= n1 THEN <<StockRow(t1, shape1, day, n1)>> ELSE <<>>)
         \o (IF day <= n2 THEN <<StockRow(t2, shape2, day, n2)>> ELSE <<>>)
         \o ByDay(t1, shape1, n1, t2, shape2, n2, day + 1)

Reverse(s) == [i \in DOMAIN s |-> s[Len(s) + 1 - i]]

\* the default RangeIndex of read_csv
WithIndex(s) == [i \in DOMAIN s |-> [s[i] EXCEPT !.idx = i]]

CsvStockTable(shape, n, other, otherShape, m, layout) ==
    WithIndex(
        CASE layout = "grouped" ->
                 ByDay(SubjectT, shape, n, other, otherShape, 0, 1)
                 \o ByDay(SubjectT, shape, 0, other, otherShape, m, 1)
          [] layout = "by_day" -> ByDay(SubjectT, shape, n, other, otherShape, m, 1)
          [] OTHER -> Reverse(ByDay(SubjectT, shape, n, other, otherShape, m, 1)))

\* a CSV table with k more rows whose Ticker cell is empty, placed after its
\* first row
WithBlankTicker(table, k) ==
    WithIndex(<<Head(table)>>
              \o [i \in 1..k |-> StockRow(NullCell, "rising", i, k)]
              \o Tail(table))

\* variant of Group that does not separate the tickers
GroupAllRows(dataframe, ticker) == dataframe

\* DataFrame.groupby('Ticker'): the rows of one key, in table order

Group(dataframe, ticker) == SelectSeq(dataframe, LAMBDA r : r.Ticker = ticker)

\* group.sort_values('Date'): ascending by Date.  Dates are distinct within a
\* ticker in every input here, so the order does not depend on the sorting
\* algorithm.
\* r placed after the rows of `sorted` whose Date is not later than its own
Insert(sorted, r) ==
    LET k == Cardinality({i \in DOMAIN sorted : sorted[i].Date <= r.Date})
    IN SubSeq(sorted, 1, k) \o <<r>> \o SubSeq(sorted, k + 1, Len(sorted))

RECURSIVE InsertionSort(_, _)
InsertionSort(group, sorted) ==
    IF Len(sorted) = Len(group) THEN sorted
    ELSE InsertionSort(group, Insert(sorted, group[Len(sorted) + 1]))

\* variant of Sort_values that keeps the table order
Sort_values_unsorted(group) == group

Sort_values(group) == InsertionSort(group, <<>>)

\* a column, held as a sequence of values
Series(f) == SubSeq(f, 1, Len(f))

\* Series.shift(1), at position i
Shift(s, i) == IF i = 1 THEN NaN ELSE s[i - 1]

\* Series.pct_change(): s / s.shift(1) - 1
Pct_change(s) == Series([i \in DOMAIN s |-> FSub(FDiv(s[i], Shift(s, i)), Num(1))])

\* Series.diff(): s - s.shift(1)
Diff(s) == Series([i \in DOMAIN s |-> FSub(s[i], Shift(s, i))])

\* Series.rolling(window, min_periods).mean() as pandas computes it: a running
\* sum to which the entering value is added and from which the value leaving
\* the window is removed; NaN entries are not observations; the mean is
\* defined once min_periods observations are in the window.
RollStart == [sum_x |-> Num(0), nobs |-> 0, out |-> <<>>]

RollStep(s, window, min_periods, st) ==
    LET i == Len(st.out) + 1
        enters == ~IsNaN(s[i])
        leaves == i > window /\ ~IsNaN(s[i - window])
        added == IF enters THEN FAdd(st.sum_x, s[i]) ELSE st.sum_x
        sum1 == IF leaves THEN FSub(added, s[i - window]) ELSE added
        nobs1 == st.nobs + (IF enters THEN 1 ELSE 0) - (IF leaves THEN 1 ELSE 0)
    IN [sum_x |-> sum1, nobs |-> nobs1,
        out |-> Append(st.out, IF nobs1 >= min_periods /\ nobs1 > 0
                               THEN FDiv(sum1, Num(nobs1)) ELSE NaN)]

RECURSIVE RollMean(_, _, _, _)
RollMean(s, window, min_periods, st) ==
    IF Len(st.out) = Len(s) THEN st.out
    ELSE RollMean(s, window, min_periods, RollStep(s, window, min_periods, st))

\* variant of Rolling_mean with min_periods=1
Rolling_mean_min_periods_1(s, window) == RollMean(s, window, 1, RollStart)

\* variant of Rolling_mean with closed='left': the current row is left out
Rolling_mean_closed_left(s, window) ==
    LET m == RollMean(s, window, window, RollStart)
    IN Series([i \in DOMAIN s |-> Shift(m, i)])

\* rolling(window=N).mean(): min_periods defaults to the window size
Rolling_mean(s, window) == RollMean(s, window, window, RollStart)

\* variant of Loss that keeps the sign of a fall
Loss_signed(delta) == IF FLess(delta, Num(0)) THEN delta ELSE Num(0)

\* -delta.where(delta < 0, 0), at one row
Loss(delta) == FNeg(IF FLess(delta, Num(0)) THEN delta ELSE Num(0))

\* the derived columns of one ticker's rows, already in date order
GroupMetrics(group) ==
    LET price == Series([i \in DOMAIN group |-> Num(group[i].price)])
        change == Pct_change(price)
        Daily_Return == Series([i \in DOMAIN group |-> FMul(change[i], Num(100))])
        MA20 == Rolling_mean(price, MA20Window)
        MA50 == Rolling_mean(price, MA50Window)
        delta == Diff(price)
        gain == Series([i \in DOMAIN group |->
                    IF FLess(Num(0), delta[i]) THEN delta[i] ELSE Num(0)])
        loss == Series([i \in DOMAIN group |-> Loss(delta[i])])
        avg_gain == Rolling_mean(gain, RSIWindow)
        avg_loss == Rolling_mean(loss, RSIWindow)
        rs == Series([i \in DOMAIN group |-> FDiv(avg_gain[i], avg_loss[i])])
        RSI == Series([i \in DOMAIN group |->
                   FSub(Num(100), FDiv(Num(100), FAdd(Num(1), rs[i])))])
    IN [i \in DOMAIN group |->
           [c \in DOMAIN group[i] \cup {"Daily_Return", "MA20", "MA50", "RSI"} |->
               CASE c = "Daily_Return" -> Daily_Return[i]
                 [] c = "MA20" -> MA20[i]
                 [] c = "MA50" -> MA50[i]
                 [] c = "RSI" -> RSI[i]
                 [] OTHER -> group[i][c]]]

\* calculate_metrics: one group per ticker present, in key order, each sorted
\* by date and extended with its derived columns; the groups concatenated
RECURSIVE ConcatGroups(_, _)
ConcatGroups(dataframe, k) ==
    IF k > Len(TickerOrder) THEN <<>>
    ELSE (IF \E i \in DOMAIN dataframe : dataframe[i].Ticker = TickerOrder[k]
          THEN GroupMetrics(Sort_values(Group(dataframe, TickerOrder[k])))
          ELSE <<>>)
         \o ConcatGroups(dataframe, k + 1)

Calculate_metrics(dataframe) == ConcatGroups(dataframe, 1)

\* variant of Dataframe_after_call in which the derived columns are written
\* to the rows of the table passed in
Dataframe_written_in_place(dataframe) ==
    [i \in DOMAIN dataframe |->
        [c \in DOMAIN dataframe[i] \cup {"Daily_Return", "MA20", "MA50", "RSI"} |->
            IF c \in DOMAIN dataframe[i] THEN dataframe[i][c] ELSE NaN]]

\* the table passed to calculate_metrics, after the call: each group is a
\* frame of its own, sort_values returns another new frame and the column
\* assignments of lines 47-60 write to that one
Dataframe_after_call(dataframe) == dataframe

\* the rows of a table in another order: those at even positions, then those
\* at odd positions from the last to the first
Shuffle(table) ==
    LET evens == SelectSeq(table, LAMBDA r : r.idx % 2 = 0)
        odds == SelectSeq(table, LAMBDA r : r.idx % 2 = 1)
    IN WithIndex(evens \o Reverse(odds))

\* the threads of the dashboard server that answer callbacks, each with the
\* call it runs, and the local filtered_df of a call
Slots == {1, 2}
IdleRequest == [stage |-> "idle", callback |-> "none", args |-> None, response |-> None]
Frame(columns, rows) == [columns |-> columns, rows |-> rows]
NoFrame == Frame({}, <<>>)

\* The CSV holds n rows of SubjectT and possibly rows of another ticker; the
\* second table has the same SubjectT rows among other rows of its own.
OtherSeries ==
    {[n |-> 0, shape |-> "flat", layout |-> "grouped", blank |-> 0],
     [n |-> 3, shape |-> "rising", layout |-> "by_day", blank |-> 0],
     [n |-> 2, shape |-> "rising", layout |-> "by_day", blank |-> 1],
     [n |-> MaxOtherRows, shape |-> "wave", layout |-> "newest_first", blank |-> 0],
     [n |-> MaxOtherRows, shape |-> "wave", layout |-> "grouped", blank |-> 0]}

InitStock ==
    /\ program = "stock_dashboard"
    /\ data = None
    /\ metrics = None
    /\ analysis = None
    /\ pc = "loaded"
    /\ \E shape \in Shapes, n \in 1..MaxStockRows, o \in OtherSeries :
          /\ loaded = WithBlankTicker(
                          CsvStockTable(shape, n, "BBB", o.shape, o.n, o.layout),
                          o.blank)
          /\ twin = CsvStockTable(shape, n, "AA", "zigzag", MaxOtherRows - o.n,
                                  IF o.layout = "by_day" THEN "newest_first"
                                  ELSE "by_day")
    /\ permuted = Shuffle(loaded)
    /\ df = loaded
    /\ twin_df = twin
    /\ permuted_df = permuted
    /\ requests = [r \in Slots |-> IdleRequest]
    /\ frames = [r \in Slots |-> NoFrame]
    /\ NoScript

\* df = calculate_metrics(df), at import of the dashboard module
CalculateMetrics ==
    /\ program = "stock_dashboard"
    /\ pc = "loaded"
    /\ df' = Calculate_metrics(df)
    /\ loaded' = Dataframe_after_call(loaded)
    /\ twin_df' = Calculate_metrics(twin_df)
    /\ permuted_df' = Calculate_metrics(permuted_df)
    /\ pc' = "ready"
    /\ UNCHANGED <<program, twin, permuted, requests, frames>>
    /\ UNCHANGED salesVars
    /\ UNCHANGED scriptVars

NextStock == CalculateMetrics

SpecStock == InitStock /\ [][NextStock]_vars

(***************************************************************************)
(* The dashboard callbacks (stock_dashboard.py, lines 170-379)             *)
(*                                                                         *)
(* The development server answers requests on threads of their own, so two *)
(* callbacks can be in progress at once.  A call is modelled in two steps: *)
(* the filter of df into the local filtered_df (or the early return on an  *)
(* empty selection), then the rest of the body up to its return.           *)
(***************************************************************************)
MaxDashRows == 3

\* price series of the tables the callbacks are explored on
DashShapes == {"zigzag", "dip", "bounce"}

\* the Volume column of the CSV
WithVolume(table) ==
    [i \in DOMAIN table |->
        [c \in DOMAIN table[i] \cup {"Volume"} |->
            IF c = "Volume" THEN 10 * table[i].price + table[i].Date
            ELSE table[i][c]]]

\* CSV tables of the dashboard: SubjectT alone or with three rows of BBB,
\* newest first; and one table whose CSV has no Volume column
DashTables ==
    {WithVolume(CsvStockTable(shape, n, "BBB", "rising", m, "newest_first")) :
        shape \in DashShapes, n \in 1..MaxDashRows, m \in {0, 3}}
    \cup {CsvStockTable("zigzag", MaxDashRows, "BBB", "rising", 0, "grouped")}

\* values of the controls: the ticker dropdown, the date picker, the chart
\* type radio items with the indicator checklist
RangeArgs ==
    {[selected_tickers |-> <<>>, start_date |-> 1, end_date |-> 9],
     [selected_tickers |-> <<SubjectT>>, start_date |-> 1, end_date |-> 9],
     [selected_tickers |-> <<"BBB", SubjectT>>, start_date |-> 1, end_date |-> 9],
     [selected_tickers |-> <<"BBB", SubjectT>>, start_date |-> 2, end_date |-> 3]}
ChartOptions ==
    {[chart_type |-> "price", indicators |-> {}],
     [chart_type |-> "price", indicators |-> {"ma20", "ma50", "rsi"}],
     [chart_type |-> "returns", indicators |-> {"ma20"}],
     [chart_type |-> "volume", indicators |-> {"rsi"}]}

MainChartArgs ==
    {[selected_tickers |-> a.selected_tickers, start_date |-> a.start_date,
      end_date |-> a.end_date, chart_type |-> o.chart_type,
      indicators |-> o.indicators] : a \in RangeArgs, o \in ChartOptions}

\* df[df['Ticker'].isin(selected_tickers)] and then the rows whose Date is
\* within [start_date, end_date]
Filter(table, args) ==
    LET selected == {args.selected_tickers[i] : i \in DOMAIN args.selected_tickers}
        by_ticker == SelectSeq(table, LAMBDA r : r.Ticker \in selected)
    IN Frame(DOMAIN table[1],
             SelectSeq(by_ticker,
                       LAMBDA r : r.Date >= args.start_date /\ r.Date <= args.end_date))

\* filtered_df[filtered_df['Ticker'] == ticker]
Ticker_data(filtered_df, ticker) ==
    SelectSeq(filtered_df.rows, LAMBDA r : r.Ticker = ticker)

\* go.Scatter / go.Bar over the Date column and one other column
Trace(type, name, ticker_data, column, row) ==
    [type |-> type, name |-> name, row |-> row,
     x |-> [i \in DOMAIN ticker_data |-> ticker_data[i].Date],
     y |-> [i \in DOMAIN ticker_data |-> ticker_data[i][column]]]

Figure(traces, title, hlines) == [traces |-> traces, title |-> title, hlines |-> hlines]
EmptyFigure == Figure(<<>>, "", {})

Returned(op, value) == [call |-> Completed(op, "", {}), value |-> value]
Failed(op, error, message) == [call |-> Raised(op, error, message), value |-> None]

\* the traces update_main_chart adds for one ticker (lines 189-228)
MainTraces(args, filtered_df, ticker) ==
    LET ticker_data == Ticker_data(filtered_df, ticker)
    IN CASE args.chart_type = "price" ->
                <<Trace("scatter", ticker \o " Price", ticker_data, "price", 1)>>
                \o (IF "ma20" \in args.indicators
                    THEN <<Trace("scatter", ticker \o " 20-Day MA", ticker_data, "MA20", 1)>>
                    ELSE <<>>)
                \o (IF "ma50" \in args.indicators
                    THEN <<Trace("scatter", ticker \o " 50-Day MA", ticker_data, "MA50", 1)>>
                    ELSE <<>>)
         [] args.chart_type = "returns" ->
                <<Trace("scatter", ticker \o " Returns", ticker_data, "Daily_Return", 1)>>
         [] args.chart_type = "volume" ->
                <<Trace("bar", ticker \o " Volume", ticker_data, "Volume", 1)>>

RsiTrace(filtered_df, ticker) ==
    <<Trace("scatter", ticker \o " RSI", Ticker_data(filtered_df, ticker), "RSI", 2)>>

VolumeTrace(filtered_df, ticker) ==
    <<Trace("bar", ticker \o " Volume", Ticker_data(filtered_df, ticker), "Volume", 1)>>

\* what a loop over selected_tickers collects, given what each pass adds
RECURSIVE ForEachTicker(_)
ForEachTicker(added) ==
    IF added = <<>> THEN <<>> ELSE Head(added) \o ForEachTicker(Tail(added))

Title_map(chart_type) ==
    CASE chart_type = "price" -> "Stock Price Over Time"
      [] chart_type = "returns" -> "Daily Returns (%)"
      [] chart_type = "volume" -> "Trading Volume"

\* update_main_chart from line 186 on, over its local filtered_df
Main_chart(args, filtered_df) ==
    LET tickers == args.selected_tickers
        traces == ForEachTicker([i \in DOMAIN tickers |->
                                    MainTraces(args, filtered_df, tickers[i])])
        rsi == ForEachTicker([i \in DOMAIN tickers |->
                                 RsiTrace(filtered_df, tickers[i])])
    IN IF args.chart_type = "volume" /\ "Volume" \notin filtered_df.columns
       THEN Failed("update_main_chart", "KeyError", "Volume")
       ELSE IF "rsi" \in args.indicators /\ args.chart_type = "price"
       THEN Returned("update_main_chart",
                Figure(traces \o rsi, "Stock Price and RSI", {30, 70}))
       ELSE Returned("update_main_chart",
                Figure(traces, Title_map(args.chart_type), {}))

\* update_volume_chart from line 296 on
Volume_chart(args, filtered_df) ==
    IF "Volume" \notin filtered_df.columns
    THEN Failed("update_volume_chart", "KeyError", "Volume")
    ELSE Returned("update_volume_chart",
             Figure(ForEachTicker([i \in DOMAIN args.selected_tickers |->
                                      VolumeTrace(filtered_df, args.selected_tickers[i])]),
                    "Trading Volume Over Time", {}))

RECURSIVE Gcd(_, _)
Gcd(a, b) == IF b = 0 THEN a ELSE Gcd(b, a % b)

\* the same value in lowest terms
Reduce(x) ==
    IF ~IsNum(x) THEN x
    ELSE LET g == Gcd(Abs(x.n), x.d) IN Rat(x.n \div g, x.d \div g)

\* Series.dropna()
Dropna(s) == SelectSeq(s, LAMBDA x : ~IsNaN(x))

\* numpy sum of the values of a series, none skipped
RECURSIVE Total(_)
Total(s) == IF s = <<>> THEN Num(0) ELSE Reduce(FAdd(Head(s), Total(Tail(s))))

\* Series.mean() of a series without NaN; the mean of nothing is NaN
Mean(s) == Reduce(FDiv(Total(s), Num(Len(s))))

\* the square root of a value; the root of a rational is kept as a symbol
Sqrt(x) ==
    IF ~IsNum(x) \/ x.n = 0 THEN x ELSE [k |-> "root", n |-> x.n, d |-> x.d]

\* Series.std() of a series without NaN: sample standard deviation (ddof=1),
\* NaN for fewer than two values
Std(s) ==
    IF Len(s) < 2 THEN NaN
    ELSE LET mean == Mean(s)
             squares == [i \in DOMAIN s |->
                            LET dev == Reduce(FSub(s[i], mean)) IN Reduce(FMul(dev, dev))]
         IN Sqrt(Reduce(FDiv(Total(squares), Num(Len(s) - 1))))

\* Series.cumprod() of a series without NaN
RECURSIVE Cumprod(_)
Cumprod(s) ==
    IF s = <<>> THEN <<>>
    ELSE LET before == Cumprod(SubSeq(s, 1, Len(s) - 1))
         IN Append(before, IF before = <<>> THEN s[Len(s)]
                           ELSE Reduce(FMul(before[Len(before)], s[Len(s)])))

\* Series.max() / Series.min(): NaN entries are skipped, NaN when none is left
RECURSIVE Largest(_)
Largest(s) ==
    IF s = <<>> THEN NaN
    ELSE LET rest == Largest(Tail(s))
         IN IF IsNaN(Head(s)) THEN rest
            ELSE IF IsNaN(rest) \/ FLess(rest, Head(s)) THEN Head(s) ELSE rest

RECURSIVE Smallest(_)
Smallest(s) ==
    IF s = <<>> THEN NaN
    ELSE LET rest == Smallest(Tail(s))
         IN IF IsNaN(Head(s)) THEN rest
            ELSE IF IsNaN(rest) \/ FLess(Head(s), rest) THEN Head(s) ELSE rest

\* Series.cummax(): the largest value so far, NaN where the entry is NaN
Cummax(s) ==
    [i \in DOMAIN s |-> IF IsNaN(s[i]) THEN NaN ELSE Largest(SubSeq(s, 1, i))]

\* f"{x:.2f}": two decimals; nan and inf are written as such
Format2(x) == IF x.k = "root" THEN x ELSE Round(x, 100)

\* lines 335-375: the metrics row of one ticker, none when fewer than two
\* of its rows are in the range
MetricsRow(filtered_df, ticker) ==
    LET ticker_data == Sort_values(Ticker_data(filtered_df, ticker))
        start_price == Num(ticker_data[1].price)
        end_price == Num(ticker_data[Len(ticker_data)].price)
        total_return == FMul(FSub(FDiv(end_price, start_price), Num(1)), Num(100))
        daily_returns ==
            Dropna([i \in DOMAIN ticker_data |-> ticker_data[i].Daily_Return])
        avg_daily_return == Mean(daily_returns)
        volatility == Std(daily_returns)
        cumulative_returns ==
            Cumprod([i \in DOMAIN daily_returns |->
                        Reduce(FAdd(Num(1), FDiv(daily_returns[i], Num(100))))])
        running_max == Cummax(cumulative_returns)
        drawdown ==
            [i \in DOMAIN cumulative_returns |->
                FMul(FSub(FDiv(cumulative_returns[i], running_max[i]), Num(1)), Num(100))]
        max_drawdown == Smallest(drawdown)
    IN IF Len(ticker_data) < 2 THEN <<>>
       ELSE <<[ticker |-> ticker,
               total_return |-> Format2(total_return),
               avg_daily_return |-> Format2(avg_daily_return),
               volatility |-> Format2(volatility),
               max_drawdown |-> Format2(max_drawdown),
               start_price |-> Format2(start_price),
               end_price |-> Format2(end_price)]>>

Div(text, rows) == [text |-> text, rows |-> rows]

\* update_performance_metrics from line 331 on
Performance_metrics(args, filtered_df) ==
    LET metrics_rows ==
            ForEachTicker([i \in DOMAIN args.selected_tickers |->
                              MetricsRow(filtered_df, args.selected_tickers[i])])
    IN Returned("update_performance_metrics",
           IF metrics_rows = <<>>
           THEN Div("No data available for the selected period", <<>>)
           ELSE Div("", metrics_rows))

\* what a callback returns at once for an empty selection
EarlyReturn(callback) ==
    IF callback = "update_performance_metrics"
    THEN Returned(callback,
                  Div("Select at least one ticker to see performance metrics", <<>>))
    ELSE Returned(callback, EmptyFigure)

\* the body of a callback after its filter
Body(callback, args, filtered_df) ==
    CASE callback = "update_main_chart" -> Main_chart(args, filtered_df)
      [] callback = "update_volume_chart" -> Volume_chart(args, filtered_df)
      [] callback = "update_performance_metrics" -> Performance_metrics(args, filtered_df)

\* variant of Filtered_df in which filtered_df is one module-level variable
Filtered_df_global(r) == 1

\* where call r keeps its filtered_df: a local variable of its own
Filtered_df(r) == r

\* a CSV table with the same rows but for the prices of SubjectT on day 1,
\* the day before the later of the two range starts
EarlierPriceChanged(table) ==
    [i \in DOMAIN table |->
        IF table[i].Ticker = SubjectT /\ table[i].Date = 1
        THEN [table[i] EXCEPT !.price = @ + 3]
        ELSE table[i]]

InitDashboard ==
    /\ program = "stock_dashboard"
    /\ data = None
    /\ metrics = None
    /\ analysis = None
    /\ pc = "loaded"
    /\ loaded \in DashTables
    /\ twin = EarlierPriceChanged(loaded)
    /\ permuted = Shuffle(loaded)
    /\ df = loaded
    /\ twin_df = twin
    /\ permuted_df = permuted
    /\ requests = [r \in Slots |-> IdleRequest]
    /\ frames = [r \in Slots |-> NoFrame]
    /\ NoScript

\* A callback invoked on thread r runs up to its filter: the call and, for an
\* empty selection, its immediate return
Invoked(r, callback, args) ==
    [requests EXCEPT ![r] =
        IF args.selected_tickers = <<>>
        THEN [stage |-> "returned", callback |-> callback, args |-> args,
              response |-> EarlyReturn(callback)]
        ELSE [stage |-> "filtered", callback |-> callback, args |-> args,
              response |-> None]]

\* lines 183-184, 293-294, 328-329: the assignment to filtered_df
Assigned(r, args) ==
    IF args.selected_tickers = <<>> THEN frames
    ELSE [frames EXCEPT ![Filtered_df(r)] = Filter(df, args)]

Free(r) == program = "stock_dashboard" /\ pc = "ready" /\ requests[r].stage # "filtered"

UpdateMainChart ==
    /\ \E r \in Slots, args \in MainChartArgs :
          /\ Free(r)
          /\ requests' = Invoked(r, "update_main_chart", args)
          /\ frames' = Assigned(r, args)
    /\ UNCHANGED <<program, loaded, twin, df, twin_df, permuted, permuted_df, pc>>
    /\ UNCHANGED salesVars
    /\ UNCHANGED scriptVars

UpdateVolumeChart ==
    /\ \E r \in Slots, args \in RangeArgs :
          /\ Free(r)
          /\ requests' = Invoked(r, "update_volume_chart", args)
          /\ frames' = Assigned(r, args)
    /\ UNCHANGED <<program, loaded, twin, df, twin_df, permuted, permuted_df, pc>>
    /\ UNCHANGED salesVars
    /\ UNCHANGED scriptVars

UpdatePerformanceMetrics ==
    /\ \E r \in Slots, args \in RangeArgs :
          /\ Free(r)
          /\ requests' = Invoked(r, "update_performance_metrics", args)
          /\ frames' = Assigned(r, args)
    /\ UNCHANGED <<program, loaded, twin, df, twin_df, permuted, permuted_df, pc>>
    /\ UNCHANGED salesVars
    /\ UNCHANGED scriptVars

\* the call runs from its filter to its return
Return ==
    /\ program = "stock_dashboard"
    /\ \E r \in Slots :
          /\ requests[r].stage = "filtered"
          /\ requests' = [requests EXCEPT ![r] =
                             [stage |-> "returned",
                              callback |-> requests[r].callback,
                              args |-> requests[r].args,
                              response |-> Body(requests[r].callback, requests[r].args,
                                                frames[Filtered_df(r)])]]
          /\ frames' = [frames EXCEPT ![Filtered_df(r)] = NoFrame]
    /\ UNCHANGED <<program, loaded, twin, df, twin_df, permuted, permuted_df, pc>>
    /\ UNCHANGED salesVars
    /\ UNCHANGED scriptVars

NextDashboard ==
    \/ CalculateMetrics
    \/ UpdateMainChart
    \/ UpdateVolumeChart
    \/ UpdatePerformanceMetrics
    \/ Return

SpecDashboard == InitDashboard /\ [][NextDashboard]_vars

(***************************************************************************)
(* analyze_new_retail_data.py: main() runs three stages over DATA_FILE,    *)
(* each in its own try block.  A stage that draws charts blocks in         *)
(* plt.show() until the window is closed.                                  *)
(***************************************************************************)

\* DATA_FILE as found on disk: absent, or a CSV holding a table
NoFile == [found |-> FALSE, table |-> None]
RetailFiles ==
    {NoFile}
    \cup {[found |-> TRUE, table |-> SalesTable(columns, MixedCells)] :
              columns \in SalesColumnSets}
    \cup {[found |-> TRUE, table |-> BadDateTable]}
    \cup {[found |-> TRUE, table |-> ExampleTable]}
    \cup {[found |-> TRUE,
           table |-> [columns |-> S,
                      rows |-> [i \in DOMAIN EnhancedRows |-> Restrict(EnhancedRows[i], S)]]] :
              S \in {EnhancedColumns, {"sales_amount", "channel"}, {"cost", "channel"}}}

\* the stage's outcome: the exception that left its try block ("none" when
\* it ran to the end) and the number of plt.show() calls made before that
StageOutcome(raised, windows) == [raised |-> raised, windows |-> windows]

\* lines 52-55: pd.read_csv(DATA_FILE), explore_data, the summary written
Exploration_stage(file) ==
    IF file.found THEN StageOutcome("none", 0) ELSE StageOutcome("FileNotFoundError", 0)

RECURSIVE ChartsShown(_, _)
ChartsShown(calls, n) ==
    IF n = 0 THEN 0
    ELSE ChartsShown(calls, n - 1)
         + Cardinality(calls[n].charts \ {"sales_analysis_report.xlsx"})

\* what leaves a sequence of calls made in turn: the first exception
CallsInTurn(calls) ==
    LET failed == {i \in DOMAIN calls : calls[i].raised # "none"}
        first == CHOOSE i \in failed : \A j \in failed : i <= j
    IN IF failed = {}
       THEN StageOutcome("none", ChartsShown(calls, Len(calls)))
       ELSE StageOutcome(calls[first].raised, ChartsShown(calls, first))

\* lines 62-78: load_data_from_file, the four analyses, the report
Basic_stage(file) ==
    IF ~file.found THEN StageOutcome("FileNotFoundError", 0) ELSE
    LET load == Load_data_from_file([extension |-> ".csv", table |-> file.table], None)
    IN CallsInTurn(<<load.call,
                     Monthly_sales_trend(load.data).call,
                     Product_category_analysis(load.data).call,
                     Regional_sales_analysis(load.data).call,
                     Marketing_campaign_impact(load.data).call,
                     Generate_comprehensive_report(load.data).call>>)

\* lines 84-110: EnhancedSalesAnalysis(data_source=DATA_FILE), whose
\* _prepare_data reads .dt of a sale_date that could not be converted;
\* calculate_key_metrics; the shipping and channel analyses when their
\* columns exist; monthly_quarterly_analysis, which has no body
Enhanced_stage(file) ==
    IF ~file.found THEN StageOutcome("FileNotFoundError", 0)
    ELSE IF To_datetime_raises(file.table)
    THEN StageOutcome("AttributeError", 0)
    ELSE LET table == Enhanced_prepare_data(file.table)
             key_metrics == Calculate_key_metrics(table)
             done == Completed("", "", {})
         IN CallsInTurn(<<IF "raised" \in DOMAIN key_metrics THEN key_metrics ELSE done,
                          IF "shipping_days" \in table.columns
                          THEN Shipping_interval_call(table) ELSE done,
                          IF FirstColumn(table.columns, ChannelLike) # NoColumn
                          THEN Sales_by_channel(table, "sales").call ELSE done>>)

\* what each stage does on the file: a function of the file alone
Stages(file) ==
    [exploration |-> Exploration_stage(file),
     basic |-> Basic_stage(file),
     enhanced |-> Enhanced_stage(file)]

\* variant of After_exploration_error without the return of line 58
After_exploration_error_continue == "basic"
\* line 58: the return in the handler of the exploration stage
After_exploration_error == "returned"

InitAnalyze ==
    /\ program = "analyze_new_retail_data"
    /\ data = None
    /\ metrics = None
    /\ analysis = None
    /\ loaded = <<>>
    /\ twin = <<>>
    /\ df = <<>>
    /\ twin_df = <<>>
    /\ permuted = <<>>
    /\ permuted_df = <<>>
    /\ pc = "idle"
    /\ requests = <<>>
    /\ frames = <<>>
    /\ \E file \in RetailFiles :
          run = [pc |-> "exploration", file |-> file, stages |-> Stages(file),
                 windows |-> 0, raised |-> "none", log |-> <<"Loading data from">>]
    /\ cleaning = None
    /\ sentiments = None
    /\ prediction = None

\* lines 51-58
ExploreData ==
    /\ program = "analyze_new_retail_data"
    /\ run.pc = "exploration"
    /\ LET outcome == run.stages.exploration
       IN run' = IF outcome.raised = "none"
                 THEN [run EXCEPT !.pc = "basic", !.log = @ \o <<"DATA EXPLORATION">>]
                 ELSE [run EXCEPT !.pc = After_exploration_error,
                                  !.log = @ \o <<"Error during data exploration">>]
    /\ UNCHANGED <<program, cleaning, sentiments, prediction>>
    /\ UNCHANGED salesVars
    /\ UNCHANGED stockVars

\* lines 61-76 up to the stage's last plt.show() or its exception
BasicAnalysis ==
    /\ program = "analyze_new_retail_data"
    /\ run.pc = "basic"
    /\ LET outcome == run.stages.basic
       IN run' = [run EXCEPT !.pc = "basic_charts",
                             !.windows = outcome.windows,
                             !.raised = outcome.raised,
                             !.log = @ \o <<"Running main sales performance analysis...">>]
    /\ UNCHANGED <<program, cleaning, sentiments, prediction>>
    /\ UNCHANGED salesVars
    /\ UNCHANGED stockVars

\* the user closes the chart window that plt.show() waits on
CloseWindow ==
    /\ program = "analyze_new_retail_data"
    /\ run.pc \in {"basic_charts", "enhanced_charts"}
    /\ run.windows > 0
    /\ run' = [run EXCEPT !.windows = @ - 1]
    /\ UNCHANGED <<program, cleaning, sentiments, prediction>>
    /\ UNCHANGED salesVars
    /\ UNCHANGED stockVars

\* lines 78-80: the stage's last message
BasicReport ==
    /\ program = "analyze_new_retail_data"
    /\ run.pc = "basic_charts"
    /\ run.windows = 0
    /\ run' = [run EXCEPT !.pc = "enhanced",
                          !.raised = "none",
                          !.log = @ \o <<IF run.raised = "none"
                                         THEN "Basic sales analysis complete"
                                         ELSE "Error during sales performance analysis">>]
    /\ UNCHANGED <<program, cleaning, sentiments, prediction>>
    /\ UNCHANGED salesVars
    /\ UNCHANGED stockVars

\* lines 83-108 up to the stage's last plt.show() or its exception
EnhancedAnalysis ==
    /\ program = "analyze_new_retail_data"
    /\ run.pc = "enhanced"
    /\ LET outcome == run.stages.enhanced
       IN run' = [run EXCEPT !.pc = "enhanced_charts",
                             !.windows = outcome.windows,
                             !.raised = outcome.raised,
                             !.log = @ \o <<"Running enhanced sales analysis...">>]
    /\ UNCHANGED <<program, cleaning, sentiments, prediction>>
    /\ UNCHANGED salesVars
    /\ UNCHANGED stockVars

\* lines 110-114: the stage's last message, then the final one
EnhancedReport ==
    /\ program = "analyze_new_retail_data"
    /\ run.pc = "enhanced_charts"
    /\ run.windows = 0
    /\ run' = [run EXCEPT !.pc = "returned",
                          !.raised = "none",
                          !.log = @ \o <<IF run.raised = "none"
                                         THEN "Enhanced analysis complete"
                                         ELSE "Error during enhanced sales analysis",
                                         "Analysis complete!">>]
    /\ UNCHANGED <<program, cleaning, sentiments, prediction>>
    /\ UNCHANGED salesVars
    /\ UNCHANGED stockVars

NextAnalyze ==
    \/ ExploreData
    \/ BasicAnalysis
    \/ CloseWindow
    \/ BasicReport
    \/ EnhancedAnalysis
    \/ EnhancedReport

SpecAnalyze == InitAnalyze /\ [][NextAnalyze]_vars

\* main() is one sequential call: each step that can run is run; each chart
\* window is closed in the end (at once under a non-interactive backend)
FairSpecAnalyze == SpecAnalyze /\ WF_vars(NextAnalyze)

(***************************************************************************)
(* clean_retail_data.py: clean_retail_data(input_file, output_file).  The  *)
(* tables here have no date column, so step 1 converts nothing.            *)
(***************************************************************************)
MaxCleanRows == 6

TextColumns == {"product"}
CappedColumns == <<"price", "quantity", "sales_amount">>
CleanColumnSets ==
    {{"product", "price"},
     {"product", "quantity"},
     {"product", "quantity", "price"},
     {"product", "quantity", "price", "sales_amount"}}

ProductNames == <<"A", "B", "C", "D", "E", "F", "G", "H", "I", "J", "K", "L">>

\* how the rows of an input table are made: which of the last rows hold an
\* unusual price, whether the last two rows name the same product, whether
\* the last row repeats the first, and the quantities
CleanShapes ==
    [outliers : {"none", "high", "two_high", "low_high"},
     twins : BOOLEAN,
     repeat : BOOLEAN,
     quantities : {"ones", "rising", "bulk", "gap"}]

UsualPrice == 10
CleanRow(shape, i, n) ==
    LET k == IF shape.outliers = "none" THEN 0
             ELSE IF shape.outliers = "high" THEN 1 ELSE 2
        price == IF i <= n - k THEN UsualPrice
                 ELSE IF i = n THEN 20 * UsualPrice
                 ELSE IF shape.outliers = "two_high" THEN 10 * UsualPrice ELSE 1
        quantity ==
            CASE shape.quantities = "ones" -> Num(1)
              [] shape.quantities = "rising" -> Num(i)
              [] shape.quantities = "bulk" -> IF i = n THEN Num(50) ELSE Num(i)
              [] shape.quantities = "gap" -> IF i = 2 THEN NaN ELSE Num(i)
    IN [product |-> IF shape.quantities = "gap" /\ i = 1 THEN NullCell
                    ELSE IF shape.twins /\ i = n /\ n > 1 THEN ProductNames[n - 1]
                    ELSE ProductNames[i],
        quantity |-> quantity,
        price |-> Num(price),
        sales_amount |-> FMul(quantity, Num(price))]

CleanTable(columns, shape, n) ==
    [columns |-> columns,
     rows |-> [i \in 1..n |->
                  Restrict(CleanRow(shape, IF shape.repeat /\ i = n THEN 1 ELSE i, n),
                           columns)]]

CleanInputs(max_rows) ==
    {CleanTable(columns, shape, n) :
        columns \in CleanColumnSets, shape \in CleanShapes, n \in 0..max_rows}

RECURSIVE Ascending(_)
Ascending(s) ==
    IF s = <<>> THEN <<>>
    ELSE LET m == CHOOSE i \in DOMAIN s : \A j \in DOMAIN s : ~FLess(s[j], s[i])
         IN <<s[m]>> \o Ascending([i \in 1..(Len(s) - 1) |-> IF i < m THEN s[i] ELSE s[i + 1]])

\* Series.quantile(qn / qd): linear interpolation between the two order
\* statistics around position q * (n - 1) of the values present
Quantile(series, qn, qd) ==
    LET v == Ascending(Dropna(series))
        n == Len(v)
        lo == (qn * (n - 1)) \div qd
        frac == (qn * (n - 1)) % qd
    IN IF n = 0 THEN NaN
       ELSE IF frac = 0 THEN v[lo + 1]
       ELSE Reduce(FAdd(v[lo + 1], FMul(Rat(frac, qd), FSub(v[lo + 2], v[lo + 1]))))

Median(series) == Quantile(series, 1, 2)

\* lines 27-41: 'Unknown' in the text columns, the median in the numeric ones
Fill_missing(table) ==
    [table EXCEPT !.rows =
        [i \in DOMAIN table.rows |->
            [c \in table.columns |->
                LET cell == table.rows[i][c]
                IN IF c \in TextColumns
                   THEN (IF cell = NullCell THEN "Unknown" ELSE cell)
                   ELSE (IF IsNaN(cell) THEN Median(Column(table, c)) ELSE cell)]]]

\* lines 44-45
Calculate_sales_amount(table) ==
    IF "sales_amount" \notin table.columns
       /\ "quantity" \in table.columns /\ "price" \in table.columns
    THEN [columns |-> table.columns \cup {"sales_amount"},
          rows |-> [i \in DOMAIN table.rows |->
                       [c \in table.columns \cup {"sales_amount"} |->
                           IF c = "sales_amount"
                           THEN Reduce(FMul(table.rows[i].quantity, table.rows[i].price))
                           ELSE table.rows[i][c]]]]
    ELSE table

\* lines 49-51: df.drop_duplicates(), the first of equal rows kept
Drop_duplicates(table) ==
    LET kept == {i \in DOMAIN table.rows :
                    \A j \in 1..(i - 1) : table.rows[j] # table.rows[i]}
        Nth(n) == CHOOSE i \in kept : Cardinality({j \in kept : j <= i}) = n
    IN [table EXCEPT !.rows = [n \in 1..Cardinality(kept) |-> table.rows[Nth(n)]]]

\* lines 58-62: the bounds of a column
Iqr_bounds(series) ==
    LET Q1 == Quantile(series, 1, 4)
        Q3 == Quantile(series, 3, 4)
        IQR == FSub(Q3, Q1)
    IN [lower |-> Reduce(FSub(Q1, FMul(Rat(3, 2), IQR))),
        upper |-> Reduce(FAdd(Q3, FMul(Rat(3, 2), IQR)))]

\* variant of Clip that caps on the upper side only
Clip_upper_only(value, lower, upper) ==
    IF FLess(upper, value) THEN upper ELSE value

\* Series.clip(lower, upper) at one row
Clip(value, lower, upper) ==
    IF FLess(value, lower) THEN lower
    ELSE IF FLess(upper, value) THEN upper
    ELSE value

\* lines 56-71 for one column
Cap_column(table, col) ==
    IF col \notin table.columns THEN table
    ELSE LET bounds == Iqr_bounds(Column(table, col))
             outliers == {i \in DOMAIN table.rows :
                             \/ FLess(table.rows[i][col], bounds.lower)
                             \/ FLess(bounds.upper, table.rows[i][col])}
         IN IF outliers = {} THEN table
            ELSE [table EXCEPT !.rows =
                     [i \in DOMAIN table.rows |->
                         [table.rows[i] EXCEPT ![col] = Clip(@, bounds.lower, bounds.upper)]]]

\* the table as it reaches step 5
Before_capping(table) == Drop_duplicates(Calculate_sales_amount(Fill_missing(table)))

\* lines 55-71: price, quantity, sales_amount in turn
Handle_outliers(table) ==
    Cap_column(Cap_column(Cap_column(table, CappedColumns[1]), CappedColumns[2]),
               CappedColumns[3])

Clean_retail_data(table) == Handle_outliers(Before_capping(table))

InitClean ==
    /\ program = "clean_retail_data"
    /\ data = None
    /\ metrics = None
    /\ analysis = None
    /\ loaded = <<>>
    /\ twin = <<>>
    /\ df = <<>>
    /\ twin_df = <<>>
    /\ permuted = <<>>
    /\ permuted_df = <<>>
    /\ pc = "idle"
    /\ requests = <<>>
    /\ frames = <<>>
    /\ run = None
    /\ \E table \in CleanInputs(MaxCleanRows) :
          cleaning = [input |-> table, returned |-> None, saved |-> None]
    /\ sentiments = None
    /\ prediction = None

\* clean_retail_data(input_file, output_file): the table is written to
\* output_file and returned
CleanRetailData ==
    /\ program = "clean_retail_data"
    /\ cleaning.returned = None
    /\ LET cleaned == Clean_retail_data(cleaning.input)
       IN cleaning' = [cleaning EXCEPT !.returned = cleaned, !.saved = cleaned]
    /\ UNCHANGED <<program, run, sentiments, prediction>>
    /\ UNCHANGED salesVars
    /\ UNCHANGED stockVars

NextClean == CleanRetailData

SpecClean == InitClean /\ [][NextClean]_vars

(***************************************************************************)
(* sentiment-analysis-project: the /analyze route of app.py, with          *)
(* get_reddit_comments and analyze_sentiments.  A comment's compound score *)
(* is VADER's, a multiple of 0.0001, held as a count of ten-thousandths.   *)
(***************************************************************************)
MaxLimit == 2
MaxSubmissions == 2
MaxComments == 2

\* 0.05 in ten-thousandths (sentiment_analysis.py lines 24 and 26)
Threshold == 500
CompoundScores == {-Threshold, 1 - Threshold, 0, Threshold - 1, Threshold}

\* the comments under one submission, and what a search of the subreddit
\* would list without a limit
CommentLists == UNION {[1..n -> CompoundScores] : n \in 0..MaxComments}
SearchResults == UNION {[1..n -> CommentLists] : n \in 0..MaxSubmissions}
Limits == -1..MaxLimit

\* subreddit.search(query, limit=limit): at most `limit` submissions
Search(found, limit) ==
    SubSeq(found, 1, IF limit < 0 THEN 0 ELSE IF limit < Len(found) THEN limit ELSE Len(found))

\* variant of Slice that returns every comment collected
Slice_all(comments, limit) == comments

\* comments[:limit]
Slice(comments, limit) ==
    IF limit >= 0
    THEN SubSeq(comments, 1, IF limit < Len(comments) THEN limit ELSE Len(comments))
    ELSE SubSeq(comments, 1, Len(comments) + limit)

\* lines 17-24 of reddit_api.py: the comments of the submissions in turn;
\* a comment's text is told by its place in the listing
RECURSIVE Collect(_, _)
Collect(submissions, s) ==
    IF s > Len(submissions) THEN <<>>
    ELSE [c \in DOMAIN submissions[s] |->
             [text |-> <<s, c>>, compound |-> submissions[s][c]]]
         \o Collect(submissions, s + 1)

Get_reddit_comments(found, limit) == Slice(Collect(Search(found, limit), 1), limit)

\* lines 24-29 of sentiment_analysis.py
Sentiment(compound) ==
    IF compound >= Threshold THEN "positive"
    ELSE IF compound <= -Threshold THEN "negative"
    ELSE "neutral"

Analyze_sentiments(comments) ==
    [i \in DOMAIN comments |->
        [text |-> comments[i].text,
         sentiment |-> Sentiment(comments[i].compound),
         scores |-> comments[i].compound]]

\* sentiments.count(label)
Count(analyzed_data, label) ==
    Cardinality({i \in DOMAIN analyzed_data : analyzed_data[i].sentiment = label})

\* lines 24-37 and 78-83 of app.py: what results.html is rendered with
Analyze(found, limit) ==
    LET comments == Get_reddit_comments(found, limit)
        analyzed_data == Analyze_sentiments(comments)
    IN [comments |-> comments,
        analyzed_data |-> analyzed_data,
        pos |-> Count(analyzed_data, "positive"),
        neg |-> Count(analyzed_data, "negative"),
        neu |-> Count(analyzed_data, "neutral"),
        total |-> Len(analyzed_data)]

InitSentiment ==
    /\ program = "sentiment_app"
    /\ data = None
    /\ metrics = None
    /\ analysis = None
    /\ loaded = <<>>
    /\ twin = <<>>
    /\ df = <<>>
    /\ twin_df = <<>>
    /\ permuted = <<>>
    /\ permuted_df = <<>>
    /\ pc = "idle"
    /\ requests = <<>>
    /\ frames = <<>>
    /\ run = None
    /\ cleaning = None
    /\ \E found \in SearchResults :
          sentiments = [found |-> found, limit |-> 0, response |-> None]
    /\ prediction = None

\* POST /analyze with the form's limit
AnalyzeRoute ==
    /\ program = "sentiment_app"
    /\ \E limit \in Limits :
          sentiments' = [sentiments EXCEPT !.limit = limit,
                                           !.response = Analyze(sentiments.found, limit)]
    /\ UNCHANGED <<program, run, cleaning, prediction>>
    /\ UNCHANGED salesVars
    /\ UNCHANGED stockVars

NextSentiment == AnalyzeRoute

SpecSentiment == InitSentiment /\ [][NextSentiment]_vars

(***************************************************************************)
(* healthcare_analysis.py: the streamlit script from the feature selection *)
(* to the prediction.  A column label made by get_dummies, f"{col}_{v}",   *)
(* is held as the pair of col and v; a column of the file is held with     *)
(* dummy = FALSE.  No column of the file is named like a dummy label.      *)
(***************************************************************************)
NumericFeatures == {"age", "bmi"}
CategoricalFeatures == {"sex"}
\* the values of the categorical column, in sorted order
Levels == <<"F", "M", "X">>
\* what can be typed into a text_input
Entries == {"", "0", "45", "M", "X"}

Plain(col) == [name |-> col, dummy |-> FALSE, level |-> ""]
Dummy(col, value) == [name |-> col, dummy |-> TRUE, level |-> value]

\* the selections of st.multiselect: the columns chosen, in the order chosen
Selections ==
    {s \in UNION {[1..n -> NumericFeatures \cup CategoricalFeatures] : n \in 0..3} :
        \A i, j \in DOMAIN s : i # j => s[i] # s[j]}

\* the values of the categorical column that occur in the uploaded file
LevelSets == (SUBSET {Levels[i] : i \in DOMAIN Levels}) \ {{}}

\* pd.get_dummies(X, drop_first=True), lines 52 and 56: the numeric columns
\* first, then the labels of each text column but the first in sorted order
RECURSIVE Keep(_, _)
Keep(features, wanted) ==
    IF features = <<>> THEN <<>>
    ELSE (IF Head(features) \in wanted THEN <<Head(features)>> ELSE <<>>)
         \o Keep(Tail(features), wanted)

LevelsPresent(present) == SelectSeq(Levels, LAMBDA v : v \in present)

RECURSIVE DummyColumns(_, _, _)
DummyColumns(features, present, drop_first) ==
    IF features = <<>> THEN <<>>
    ELSE LET labels == LevelsPresent(present)
             kept == IF drop_first THEN Tail(labels) ELSE labels
         IN [i \in DOMAIN kept |-> Dummy(Head(features), kept[i])]
            \o DummyColumns(Tail(features), present, drop_first)

Training_columns(features, present) ==
    LET numeric == Keep(features, NumericFeatures)
    IN [i \in DOMAIN numeric |-> Plain(numeric[i])]
       \o DummyColumns(Keep(features, CategoricalFeatures), present, TRUE)

\* lines 85-86: pd.DataFrame([user_input]) holds the texts typed, so
\* pd.get_dummies turns every column into the label of its one value
Input_dummies(features, user_input) ==
    [columns |-> [i \in DOMAIN features |-> Dummy(features[i], user_input[features[i]])],
     row |-> [i \in DOMAIN features |-> "True"]]

\* line 87: input_df.reindex(columns=X.columns, fill_value=0)
Reindex(input_df, columns, fill_value) ==
    [columns |-> columns,
     row |-> [i \in DOMAIN columns |->
                 IF \E j \in DOMAIN input_df.columns : input_df.columns[j] = columns[i]
                 THEN input_df.row[CHOOSE j \in DOMAIN input_df.columns :
                                      input_df.columns[j] = columns[i]]
                 ELSE fill_value]]

InitHealthcare ==
    /\ program = "healthcare_analysis"
    /\ data = None
    /\ metrics = None
    /\ analysis = None
    /\ loaded = <<>>
    /\ twin = <<>>
    /\ df = <<>>
    /\ twin_df = <<>>
    /\ permuted = <<>>
    /\ permuted_df = <<>>
    /\ pc = "idle"
    /\ requests = <<>>
    /\ frames = <<>>
    /\ run = None
    /\ cleaning = None
    /\ sentiments = None
    /\ \E present \in LevelSets :
          prediction = [present |-> present, features |-> <<>>, X |-> <<>>,
                        user_input |-> <<>>, input_df |-> None]

\* the user changes the multiselect: the script reruns, trains on the
\* selected columns and shows one empty text_input per feature
SelectFeatures ==
    /\ program = "healthcare_analysis"
    /\ \E features \in Selections :
          prediction' = [prediction EXCEPT
                            !.features = features,
                            !.X = Training_columns(features, prediction.present),
                            !.user_input = [f \in {features[i] : i \in DOMAIN features} |-> ""],
                            !.input_df = None]
    /\ UNCHANGED <<program, run, cleaning, sentiments>>
    /\ UNCHANGED salesVars
    /\ UNCHANGED stockVars

\* the user types into the text_input of a feature (lines 80-82)
EnterValue ==
    /\ program = "healthcare_analysis"
    /\ \E f \in DOMAIN prediction.user_input, value \in Entries :
          prediction' = [prediction EXCEPT !.user_input[f] = value, !.input_df = None]
    /\ UNCHANGED <<program, run, cleaning, sentiments>>
    /\ UNCHANGED salesVars
    /\ UNCHANGED stockVars

\* the Predict button (lines 84-88): the row passed to model.predict
Predict ==
    /\ program = "healthcare_analysis"
    /\ prediction.features # <<>>
    /\ prediction' =
          [prediction EXCEPT
              !.input_df = Reindex(Input_dummies(prediction.features, prediction.user_input),
                                   prediction.X, "0")]
    /\ UNCHANGED <<program, run, cleaning, sentiments>>
    /\ UNCHANGED salesVars
    /\ UNCHANGED stockVars

NextHealthcare ==
    \/ SelectFeatures
    \/ EnterValue
    \/ Predict

SpecHealthcare == InitHealthcare /\ [][NextHealthcare]_vars

Init ==
    \/ InitSales
    \/ InitStock
    \/ InitDashboard
    \/ InitAnalyze
    \/ InitClean
    \/ InitSentiment
    \/ InitHealthcare

Next ==
    \/ NextSales
    \/ NextStock
    \/ NextDashboard
    \/ NextAnalyze
    \/ NextClean
    \/ NextSentiment
    \/ NextHealthcare

Spec == Init /\ [][Next]_vars

(***************************************************************************)
(* Properties of the shipping-interval classification                      *)
(***************************************************************************)
HasShipping ==
    /\ data # None
    /\ {"shipping_days", "shipping_interval"} \subseteq data.columns

LabelSet == {ShippingLabels[i] : i \in DOMAIN ShippingLabels}

LabelledRows == {i \in DOMAIN data.rows : data.rows[i].shipping_interval # NoLabel}

DaysOf(i) == data.rows[i].shipping_days

\* C1: every finite non-negative shipping_days value is assigned exactly one
\* of the labels 'Within 7 days', 'Within 30 days', 'After 30 days' (the
\* classification has no gap on the non-negative range).
C1_NoGap ==
    HasShipping =>
        \A i \in DOMAIN data.rows :
            (IsNum(DaysOf(i)) /\ DaysOf(i).n >= 0) =>
                data.rows[i].shipping_interval \in LabelSet

\* C2: a shipping_days value equal to zero or at or below the lowest edge 0
\* falls in the first bucket 'Within 7 days'; the series [3, 10, 45, 0, 7] is
\* labelled [Within 7, Within 30, After 30, Within 7, Within 7].
C2_ZeroInFirstBucket ==
    HasShipping =>
        /\ \A i \in DOMAIN data.rows :
              (IsNum(DaysOf(i)) /\ DaysOf(i).n <= 0) =>
                  data.rows[i].shipping_interval = "Within 7 days"
        /\ Column(data, "shipping_days") =
                [i \in DOMAIN ExampleShippingDays |-> Num(ExampleShippingDays[i])]
              => Column(data, "shipping_interval") =
                    <<"Within 7 days", "Within 30 days", "After 30 days",
                      "Within 7 days", "Within 7 days">>

\* C3: the buckets are the right-closed intervals (0,7], (7,30], (30,inf):
\* 0 < v <= 7 gives 'Within 7 days', 7 < v <= 30 gives 'Within 30 days' and
\* v > 30 gives 'After 30 days'.
C3_RightClosedBuckets ==
    HasShipping =>
        \A i \in DOMAIN data.rows :
            IsNum(DaysOf(i)) =>
                LET v == DaysOf(i).n
                    label == data.rows[i].shipping_interval
                IN /\ (0 < v /\ v <= 7) => label = "Within 7 days"
                   /\ (7 < v /\ v <= 30) => label = "Within 30 days"
                   /\ v > 30 => label = "After 30 days"

\* a loaded table holding the edge values 7 and 30 and a value above 30
C3_Witness ==
    /\ HasShipping
    /\ \E i, j, l \in DOMAIN data.rows :
          /\ DaysOf(i) = Num(7) /\ data.rows[i].shipping_interval = "Within 7 days"
          /\ DaysOf(j) = Num(30) /\ data.rows[j].shipping_interval = "Within 30 days"
          /\ DaysOf(l) = Num(31) /\ data.rows[l].shipping_interval = "After 30 days"

PctKeys ==
    [l \in LabelSet |->
        CASE l = "Within 7 days" -> "pct_shipped_within_7_days"
          [] l = "Within 30 days" -> "pct_shipped_within_30_days"
          [] OTHER -> "pct_shipped_after_30_days"]

\* C4: a row with a missing shipping_days has a null shipping_interval and is
\* excluded from the percentages of calculate_key_metrics: each percentage is
\* 100 * (rows with that label) / (labelled rows), and the three sum to 100
\* whenever at least one row is labelled.
C4_PercentagesOverLabelledRows ==
    (HasShipping /\ metrics # None) =>
        /\ \A i \in DOMAIN data.rows :
              IsNaN(DaysOf(i)) => data.rows[i].shipping_interval = NoLabel
        /\ LabelledRows # {} =>
              /\ \A l \in LabelSet :
                    FEq(metrics[PctKeys[l]],
                        Rat(100 * Cardinality({i \in LabelledRows :
                                data.rows[i].shipping_interval = l}),
                            Cardinality(LabelledRows)))
              /\ FEq(FAdd(metrics.pct_shipped_within_7_days,
                          FAdd(metrics.pct_shipped_within_30_days,
                               metrics.pct_shipped_after_30_days)),
                     Num(100))

\* metrics computed over a table with an unlabelled row and two labels in use
C4_Witness ==
    /\ HasShipping
    /\ metrics # None
    /\ \E i \in DOMAIN data.rows : IsNaN(DaysOf(i))
    /\ FEq(metrics.pct_shipped_within_7_days, Num(50))
    /\ FEq(metrics.pct_shipped_after_30_days, Num(50))

\* the metrics whose source columns the loaded table has
ExpectedMetricKeys(table) ==
    {"total_transactions"}
    \cup (IF table.columns \cap SalesLike # {} THEN {"total_sales", "avg_sale"} ELSE {})
    \cup (IF table.columns \cap CostLike # {} THEN {"total_cost"} ELSE {})
    \cup (IF \/ table.columns \cap ProfitLike # {}
             \/ table.columns \cap SalesLike # {} /\ table.columns \cap CostLike # {}
          THEN {"total_profit"} ELSE {})
    \cup (IF "shipping_days" \in table.columns
          THEN {"avg_shipping_days", "pct_shipped_within_7_days",
                "pct_shipped_within_30_days", "pct_shipped_after_30_days"}
          ELSE {})

\* C20: for any table loaded through load_data, whatever subset of the
\* optional columns (sales/revenue, cost/cogs, profit, order_date, ship_date,
\* shipping_days) it has, calculate_key_metrics returns a dictionary without
\* failing; total_transactions is always present and every other metric is
\* present exactly when its source columns are present.
C20_KeyMetricsComputeWhatIsAvailable ==
    (program = "enhanced_sales_analysis" /\ metrics # None) =>
        /\ "raised" \notin DOMAIN metrics
        /\ DOMAIN metrics = ExpectedMetricKeys(data)
        /\ metrics.total_transactions = Len(data.rows)

(***************************************************************************)
(* Properties of SalesPerformanceAnalysis                                  *)
(*                                                                         *)
(* The expected figures are computed from the rows of the loaded table.    *)
(***************************************************************************)
\* the last analysis call was `op`
Called(op) == analysis # None /\ analysis.call.op = op

\* the last call was marketing_campaign_impact and it returned its table
MarketingReturned ==
    /\ program = "sales_analysis"
    /\ Called("marketing_campaign_impact")
    /\ analysis.call.raised = "none"

CampaignsOf(table) == {table.rows[i].campaign_id : i \in DOMAIN table.rows}

\* sum and number of the amounts present among the first n rows of a campaign
RECURSIVE AmountSum(_, _, _)
AmountSum(table, g, n) ==
    IF n = 0 THEN Num(0)
    ELSE IF table.rows[n].campaign_id = g /\ IsNum(table.rows[n].sales_amount)
    THEN FAdd(AmountSum(table, g, n - 1), table.rows[n].sales_amount)
    ELSE AmountSum(table, g, n - 1)

AmountCount(table, g) ==
    Cardinality({i \in DOMAIN table.rows :
        table.rows[i].campaign_id = g /\ IsNum(table.rows[i].sales_amount)})

\* mean sale of a campaign: undefined when none of its rows has an amount
MeanSale(table, g) ==
    IF AmountCount(table, g) = 0 THEN NaN
    ELSE FDiv(AmountSum(table, g, Len(table.rows)), Num(AmountCount(table, g)))

\* both undefined, or both the same number or infinity
SameValue(a, b) == IF IsNaN(a) \/ IsNaN(b) THEN IsNaN(a) /\ IsNaN(b) ELSE FEq(a, b)

\* (mean - baseline mean) / baseline mean * 100, to 2 decimals
ExpectedLift(table, g) ==
    Round(FMul(FDiv(FSub(MeanSale(table, g), MeanSale(table, Baseline)),
                    MeanSale(table, Baseline)),
               Num(100)), 100)

\* C12: when the 'No Campaign' baseline is present, sales_lift_pct of every
\* campaign is (its mean sale - baseline mean) / baseline mean * 100 rounded
\* to 2 decimals, and the lift of the baseline against itself is 0.
C12_LiftAgainstBaseline ==
    (MarketingReturned /\ Baseline \in CampaignsOf(data)) =>
        /\ "sales_lift_pct" \in analysis.value.columns
        /\ \A g \in CampaignsOf(data) :
              SameValue(analysis.value.rows[g].sales_lift_pct, ExpectedLift(data, g))
        /\ FEq(analysis.value.rows[Baseline].sales_lift_pct, Num(0))


\* a loaded table that has the campaign and the amount of every row
HasCampaignSales ==
    /\ program = "sales_analysis"
    /\ data # None
    /\ {"campaign_id", "sales_amount"} \subseteq data.columns

\* the outcome reports sum, mean and count of every campaign of the table and
\* no lift
TableWithoutLift(table, outcome) ==
    /\ outcome.call.raised = "none"
    /\ outcome.value.columns = {"total_sales", "avg_sale", "num_transactions"}
    /\ DOMAIN outcome.value.rows = CampaignsOf(table)
    /\ \A g \in CampaignsOf(table) :
          /\ DOMAIN outcome.value.rows[g] = {"total_sales", "avg_sale", "num_transactions"}
          /\ FEq(outcome.value.rows[g].total_sales, AmountSum(table, g, Len(table.rows)))
          /\ SameValue(outcome.value.rows[g].avg_sale, MeanSale(table, g))
          /\ outcome.value.rows[g].num_transactions = AmountCount(table, g)

\* C13: when no row belongs to the baseline 'No Campaign', a call of
\* marketing_campaign_impact raises nothing, computes no lift (its result has
\* no sales_lift_pct) and returns the sum, mean and count of every campaign.
C13_NoBaselineNoLift ==
    [][(MarketingCampaignImpact /\ HasCampaignSales /\ Baseline \notin CampaignsOf(data))
          => TableWithoutLift(data, analysis')]_vars

\* the analysis returned for a table with two campaigns and no baseline row
C13_Witness ==
    /\ HasCampaignSales
    /\ Baseline \notin CampaignsOf(data)
    /\ Cardinality(CampaignsOf(data)) = 2
    /\ Called("marketing_campaign_impact")
    /\ analysis.call.raised = "none"
    /\ \E g \in CampaignsOf(data) : FEq(analysis.value.rows[g].avg_sale, Rat(35, 2))

\* a named failure: a ValueError, or a 'not available' message with a None
\* result; either way no figure and no value
NotAvailableMessages ==
    {"Shipping interval data not available.", "Sales channel data not available."}
    \cup {metric \o " data not available." : metric \in ChannelMetrics}

NamedFailure(outcome) ==
    /\ \/ outcome.call.raised = "ValueError"
       \/ outcome.call.raised = "none" /\ outcome.call.printed \in NotAvailableMessages
    /\ outcome.call.charts = {}
    /\ outcome.value = None

\* the columns an analysis of SalesPerformanceAnalysis reads
RequiredColumns(op) ==
    CASE op = "monthly_sales_trend" -> {"sale_date", "sales_amount"}
      [] op = "product_category_analysis" -> {"category", "sales_amount"}
      [] op = "regional_sales_analysis" -> {"region", "sales_amount"}
      [] op = "marketing_campaign_impact" -> {"campaign_id", "sales_amount"}

\* sales_by_channel(metric) has no channel column or no column for its metric
LacksChannelData(table, metric) ==
    \/ table.columns \cap ChannelLike = {}
    \/ metric = "sales" /\ table.columns \cap SalesLike = {}
    \/ metric = "profit" /\ table.columns \cap ProfitLike = {}
    \/ metric = "cogs" /\ table.columns \cap CostLike = {}

\* C14: every analysis operation (monthly_sales_trend,
\* product_category_analysis, regional_sales_analysis,
\* marketing_campaign_impact, shipping_interval_analysis, sales_by_channel)
\* called on a loaded table that lacks a column it requires ends in a named
\* failure (a ValueError, or a 'not available' message with a None result)
\* and produces no chart and no result.
C14_MissingColumnNamedFailure ==
    [][/\ \A op \in {"monthly_sales_trend", "product_category_analysis",
                     "regional_sales_analysis", "marketing_campaign_impact"} :
              (/\ program = "sales_analysis"
               /\ data # None
               /\ ~(RequiredColumns(op) \subseteq data.columns)
               /\ \/ MonthlySalesTrend
                  \/ ProductCategoryAnalysis
                  \/ RegionalSalesAnalysis
                  \/ MarketingCampaignImpact
               /\ analysis'.call.op = op)
                  => NamedFailure(analysis')
       /\ (ShippingIntervalAnalysis /\ "shipping_interval" \notin data.columns)
              => NamedFailure(analysis')
       /\ \A metric \in ChannelMetrics :
              (/\ SalesByChannel
               /\ analysis' = Sales_by_channel(data, metric)
               /\ LacksChannelData(data, metric))
                  => NamedFailure(analysis')]_vars

(***************************************************************************)
(* Properties of calculate_metrics                                         *)
(*                                                                         *)
(* The expected values are computed from the loaded table alone: the rows  *)
(* of a ticker ranked by date, independently of how calculate_metrics      *)
(* groups and sorts.                                                       *)
(***************************************************************************)
Ready == pc = "ready"

\* the keys of groupby('Ticker'): a row with an empty Ticker cell has none
TickersIn(table) == {table[i].Ticker : i \in DOMAIN table} \ {NullCell}

\* rank by date of every row among the rows of its own ticker
DateRanks(table) ==
    Series([j \in DOMAIN table |->
        Cardinality({l \in DOMAIN table :
            table[l].Ticker = table[j].Ticker /\ table[l].Date <= table[j].Date})])

\* the rows of ticker t in date order
InDateOrder(table, t) ==
    LET ranks == DateRanks(table)
        count == Cardinality({j \in DOMAIN table : table[j].Ticker = t})
    IN Series([k \in 1..count |->
           table[CHOOSE j \in DOMAIN table : table[j].Ticker = t /\ ranks[j] = k]])

\* the row calculate_metrics returned for an observation
OutRow(out, row) ==
    out[CHOOSE i \in DOMAIN out : out[i].Ticker = row.Ticker /\ out[i].Date = row.Date]

RECURSIVE SumPrices(_, _, _)
SumPrices(rows, lo, hi) ==
    IF lo > hi THEN 0 ELSE rows[hi].price + SumPrices(rows, lo, hi - 1)

\* gains and losses summed over the deltas of rows lo..hi (the first row of a
\* ticker has no delta and counts as 0)
RECURSIVE SumGain(_, _, _)
SumGain(rows, lo, hi) ==
    IF lo > hi THEN 0
    ELSE (IF hi > 1 /\ rows[hi].price > rows[hi - 1].price
          THEN rows[hi].price - rows[hi - 1].price ELSE 0)
         + SumGain(rows, lo, hi - 1)

RECURSIVE SumLoss(_, _, _)
SumLoss(rows, lo, hi) ==
    IF lo > hi THEN 0
    ELSE (IF hi > 1 /\ rows[hi].price < rows[hi - 1].price
          THEN rows[hi - 1].price - rows[hi].price ELSE 0)
         + SumLoss(rows, lo, hi - 1)

\* C5: for every ticker and window N in {20, 50} the moving average is
\* undefined on the first N-1 rows of the ticker in date order and defined on
\* every later row.
C5_MovingAverageDefinedFromWindow ==
    Ready =>
        \A t \in TickersIn(loaded) :
            LET rows == InDateOrder(loaded, t)
            IN \A k \in DOMAIN rows :
                  /\ IsNaN(OutRow(df, rows[k]).MA20) <=> k < MA20Window
                  /\ IsNaN(OutRow(df, rows[k]).MA50) <=> k < MA50Window

\* a ticker long enough for both windows: MA50 undefined on row 49 and
\* defined on row 50
C5_Witness ==
    /\ Ready
    /\ \E t \in TickersIn(loaded) :
          LET rows == InDateOrder(loaded, t)
          IN /\ Len(rows) > MA50Window
             /\ IsNaN(OutRow(df, rows[MA50Window - 1]).MA50)
             /\ IsNum(OutRow(df, rows[MA50Window]).MA50)
             /\ IsNaN(OutRow(df, rows[MA20Window - 1]).MA20)
             /\ IsNum(OutRow(df, rows[MA20Window]).MA20)

\* C6: for every ticker the 14-period RSI is undefined on the first 13 rows
\* and defined on every later row, for every valid price series, flat and
\* strictly rising ones included.
C6_RsiDefinedFromWindow ==
    Ready =>
        \A t \in TickersIn(loaded) :
            LET rows == InDateOrder(loaded, t)
            IN \A k \in DOMAIN rows :
                  IsNaN(OutRow(df, rows[k]).RSI) <=> k < RSIWindow

\* C7: RSI = 100 - 100/(1 + avg_gain/avg_loss) over the trailing 14 rows of
\* day-over-day deltas, and RSI = 100 whenever the window is full and
\* avg_loss is zero.
C7_RsiFormula ==
    Ready =>
        \A t \in TickersIn(loaded) :
            LET rows == InDateOrder(loaded, t)
            IN \A k \in DOMAIN rows :
                  k >= RSIWindow =>
                      LET g == SumGain(rows, k - RSIWindow + 1, k)
                          l == SumLoss(rows, k - RSIWindow + 1, k)
                          rsi == OutRow(df, rows[k]).RSI
                      IN IF l = 0 THEN FEq(rsi, Num(100))
                         ELSE FEq(rsi, FSub(Num(100),
                                  FDiv(Num(100), FAdd(Num(1), Rat(g, l)))))

\* round(x, 2) of a non-negative number, in hundredths
Hundredths(x) == (2 * 100 * x.n + x.d) \div (2 * x.d)

\* C8: wherever it is defined, the N-row moving average is the arithmetic
\* mean of the ticker's trailing N prices, the current row included; the
\* 3-row average of [10, 11, 9, 12] is [undefined, undefined, 10.0, 10.67];
\* a constant series yields that constant.
C8_MovingAverageIsTrailingMean ==
    /\ Ready =>
          \A t \in TickersIn(loaded) :
              LET rows == InDateOrder(loaded, t)
              IN \A k \in DOMAIN rows :
                    LET out == OutRow(df, rows[k])
                    IN /\ IsNum(out.MA20) =>
                            FEq(out.MA20,
                                Rat(SumPrices(rows, k - MA20Window + 1, k), MA20Window))
                       /\ IsNum(out.MA50) =>
                            FEq(out.MA50,
                                Rat(SumPrices(rows, k - MA50Window + 1, k), MA50Window))
                       /\ (\A j \in DOMAIN rows : rows[j].price = rows[1].price) =>
                            /\ IsNum(out.MA20) => FEq(out.MA20, Num(rows[1].price))
                            /\ IsNum(out.MA50) => FEq(out.MA50, Num(rows[1].price))
    /\ Ready =>
          LET ma3 == Rolling_mean(<<Num(10), Num(11), Num(9), Num(12)>>, 3)
          IN /\ IsNaN(ma3[1]) /\ IsNaN(ma3[2])
             /\ FEq(ma3[3], Num(10))
             /\ FEq(ma3[4], Rat(32, 3)) /\ Hundredths(ma3[4]) = 1067

\* a varying series with both averages defined, and a constant one
C8_Witness ==
    /\ Ready
    /\ \E t \in TickersIn(loaded) :
          LET rows == InDateOrder(loaded, t)
          IN /\ Len(rows) >= MA50Window
             /\ rows[Len(rows)].price # rows[Len(rows) - 1].price
             /\ IsNum(OutRow(df, rows[Len(rows)]).MA50)
             /\ ~FEq(OutRow(df, rows[Len(rows)]).MA20, OutRow(df, rows[Len(rows)]).MA50)

\* the derived values of the rows of one ticker, in the order returned
Derived(out, t) ==
    LET mine == SelectSeq(out, LAMBDA r : r.Ticker = t)
    IN [i \in DOMAIN mine |->
           <<mine[i].Date, mine[i].price, mine[i].Daily_Return,
             mine[i].MA20, mine[i].MA50, mine[i].RSI>>]

\* C9: two tables that agree on the rows of ticker T get the same
\* Daily_Return, MA20, MA50 and RSI on T's rows, whatever the rows of the
\* other tickers are and however they are interleaved.
C9_SubjectsNeverMixed ==
    Ready => Derived(df, SubjectT) = Derived(twin_df, SubjectT)

\* both tables hold rows of another ticker, differently placed, and T has
\* enough rows for every window
C9_Witness ==
    /\ Ready
    /\ Len(Derived(df, SubjectT)) >= MA50Window
    /\ \E i \in DOMAIN loaded : loaded[i].Ticker # SubjectT
    /\ \E i \in DOMAIN twin : twin[i].Ticker # SubjectT
    /\ \E i \in DOMAIN loaded : loaded[i].Ticker = SubjectT /\ twin[i].Ticker # SubjectT
    /\ \E i \in DOMAIN df : df[i].Ticker = SubjectT /\ IsNum(df[i].MA50)

\* C10: Daily_Return at row t of a ticker is
\* (value[t] - value[t-1]) / value[t-1] * 100 over the ticker's previous row
\* in date order; it is undefined at the first row of each ticker and exactly
\* 0 when two consecutive values are equal and non-zero.
C10_DailyReturn ==
    Ready =>
        \A t \in TickersIn(loaded) :
            LET rows == InDateOrder(loaded, t)
            IN \A k \in DOMAIN rows :
                  LET ret == OutRow(df, rows[k]).Daily_Return
                  IN /\ k = 1 => IsNaN(ret)
                     /\ (k > 1 /\ rows[k - 1].price # 0) =>
                           /\ FEq(ret, Rat((rows[k].price - rows[k - 1].price) * 100,
                                           rows[k - 1].price))
                           /\ rows[k].price = rows[k - 1].price =>
                                 IsNum(ret) /\ ret.n = 0

\* a table that is not in date order, with a zero and a non-zero return
C10_Witness ==
    /\ Ready
    /\ Len(loaded) > 2
    /\ loaded[1].Date > loaded[2].Date
    /\ \E i, j \in DOMAIN df :
          /\ df[i].Ticker = df[j].Ticker
          /\ IsNum(df[i].Daily_Return) /\ df[i].Daily_Return.n = 0
          /\ IsNum(df[j].Daily_Return) /\ df[j].Daily_Return.n > 0

\* C11: when the previous value of a ticker is exactly zero the percentage
\* change of the current row is undefined, the same sentinel (NaN) as on the
\* first row: not an error and not a numeric value.
C11_ZeroPreviousUndefined ==
    Ready =>
        \A t \in TickersIn(loaded) :
            LET rows == InDateOrder(loaded, t)
            IN \A k \in DOMAIN rows :
                  (k > 1 /\ rows[k - 1].price = 0) =>
                      OutRow(df, rows[k]).Daily_Return = OutRow(df, rows[1]).Daily_Return

\* the fields a row had when it was read from the CSV
OriginalFields == {"idx", "Ticker", "Date", "price"}
DerivedFields == {"Daily_Return", "MA20", "MA50", "RSI"}

\* C16: calculate_metrics returns exactly one row for every row of its input,
\* none dropped and none duplicated, with the original fields of the input
\* row unchanged and Daily_Return, MA20, MA50 and RSI added.
C16_OneOutputRowPerInputRow ==
    Ready =>
        /\ \A i \in DOMAIN loaded :
              Cardinality({j \in DOMAIN df : df[j].idx = loaded[i].idx}) = 1
        /\ \A j \in DOMAIN df :
              /\ DOMAIN df[j] = OriginalFields \cup DerivedFields
              /\ \E i \in DOMAIN loaded :
                    Restrict(df[j], OriginalFields) = loaded[i]

DerivedOf(out, row) ==
    LET r == OutRow(out, row)
    IN <<r.Daily_Return, r.MA20, r.MA50, r.RSI>>

\* C18: when the dates of each ticker are distinct, a table holding the same
\* rows in another order gets the same Daily_Return, MA20, MA50 and RSI for
\* every (ticker, date) observation.
C18_PermutationInvariant ==
    Ready =>
        \A i \in DOMAIN loaded :
            loaded[i].Ticker \in TickersIn(loaded) =>
                DerivedOf(df, loaded[i]) = DerivedOf(permuted_df, loaded[i])

\* the second table holds the rows of the first, one of them at another
\* position and neither table in date order within a ticker, the dates of a
\* ticker are distinct, and the ticker is long enough for every window
C18_Witness ==
    /\ Ready
    /\ Len(permuted) = Len(loaded)
    /\ \A i \in DOMAIN loaded :
          \E j \in DOMAIN permuted :
              Restrict(permuted[j], OriginalFields \ {"idx"})
                  = Restrict(loaded[i], OriginalFields \ {"idx"})
    /\ \A i, j \in DOMAIN loaded :
          (loaded[i].Ticker = loaded[j].Ticker /\ loaded[i].Date = loaded[j].Date)
              => i = j
    /\ \E i \in DOMAIN loaded :
          i > 1 /\ loaded[i].Ticker = loaded[i - 1].Ticker
                /\ loaded[i].Date < loaded[i - 1].Date
    /\ \E i \in DOMAIN permuted :
          i > 1 /\ permuted[i].Ticker = permuted[i - 1].Ticker
                /\ permuted[i].Date > permuted[i - 1].Date
    /\ \E i \in DOMAIN permuted :
          i > 2 /\ permuted[i].Ticker = permuted[i - 2].Ticker
                /\ permuted[i].Date < permuted[i - 2].Date
    /\ \E j \in DOMAIN df : IsNum(df[j].MA50) /\ IsNum(df[j].RSI)

\* the rows of ticker t in a table
RowsOf(table, t) == SelectSeq(table, LAMBDA r : r.Ticker = t)

\* the rows of ticker t within the date range of a request
InRange(table, t, args) ==
    SelectSeq(RowsOf(table, t),
              LAMBDA r : r.Date >= args.start_date /\ r.Date <= args.end_date)

AnsweredBy(r, callback) ==
    requests[r].stage = "returned" /\ requests[r].callback = callback

\* the names of the traces that show a window-based value of ticker t
WindowTraces(t) == {t \o " 20-Day MA", t \o " 50-Day MA", t \o " RSI"}

\* C15: for a ticker with fewer rows than a window, a single row included,
\* calculate_metrics completes and returns the ticker's rows with MA20, MA50
\* and RSI undefined on each of them; the callbacks show these undefined
\* values as they are and do not raise because of them.
C15_InsufficientHistoryNoError ==
    Ready =>
        /\ \A t \in TickersIn(loaded) :
              LET rows == RowsOf(df, t)
              IN /\ Len(rows) = Len(RowsOf(loaded, t))
                 /\ \A j \in DOMAIN rows :
                       /\ Len(rows) < MA20Window => IsNaN(rows[j].MA20)
                       /\ Len(rows) < MA50Window => IsNaN(rows[j].MA50)
                       /\ Len(rows) < RSIWindow => IsNaN(rows[j].RSI)
        /\ \A r \in Slots :
              requests[r].stage = "returned" =>
                  LET answer == requests[r].response
                      args == requests[r].args
                  IN /\ "Volume" \in DOMAIN loaded[1] => answer.call.raised = "none"
                     /\ (AnsweredBy(r, "update_main_chart")
                            /\ answer.call.raised = "none") =>
                           \A k \in DOMAIN answer.value.traces :
                               \A t \in TickersIn(loaded) :
                                   answer.value.traces[k].name \in WindowTraces(t) =>
                                       LET y == answer.value.traces[k].y
                                       IN /\ Len(y) = Len(InRange(loaded, t, args))
                                          /\ \A i \in DOMAIN y : IsNaN(y[i])
                     /\ (AnsweredBy(r, "update_performance_metrics")
                            /\ args.selected_tickers # <<>>) =>
                           \A t \in TickersIn(loaded) :
                               (\E i \in DOMAIN args.selected_tickers :
                                    args.selected_tickers[i] = t)
                                   => ((\E k \in DOMAIN answer.value.rows :
                                           answer.value.rows[k].ticker = t)
                                       <=> Len(InRange(loaded, t, args)) >= 2)

\* a ticker with a single row next to a longer one; the main chart has
\* answered with an RSI trace of undefined values and the performance
\* metrics with a row
C15_Witness ==
    /\ Ready
    /\ Len(RowsOf(loaded, SubjectT)) = 1
    /\ Len(RowsOf(loaded, "BBB")) > 1
    /\ AnsweredBy(1, "update_main_chart")
    /\ requests[1].response.call.raised = "none"
    /\ \E k \in DOMAIN requests[1].response.value.traces :
          LET trace == requests[1].response.value.traces[k]
          IN /\ trace.name = SubjectT \o " RSI"
             /\ Len(trace.y) = 1
             /\ IsNaN(trace.y[1])
    /\ AnsweredBy(2, "update_performance_metrics")
    /\ Len(requests[2].response.value.rows) = 1

\* what a callback answers when it runs alone on df
Answer(callback, args) ==
    IF args.selected_tickers = <<>> THEN EarlyReturn(callback)
    ELSE Body(callback, args, Filter(df, args))

\* C19: under every interleaving of update_main_chart, update_volume_chart
\* and update_performance_metrics the table df stays what calculate_metrics
\* made of the CSV, and what a call returns is what its own arguments give
\* on that table, whatever the other calls are and were.
C19_NoSharedState ==
    Ready =>
        /\ df = Calculate_metrics(loaded)
        /\ \A r \in Slots :
              requests[r].stage = "returned" =>
                  requests[r].response = Answer(requests[r].callback, requests[r].args)

\* one thread has answered a call while the other, invoked with another
\* selection, is between its filter and its return; both selections have
\* rows in df
C19_Witness ==
    /\ Ready
    /\ AnsweredBy(1, "update_performance_metrics")
    /\ requests[1].response.value.rows # <<>>
    /\ requests[2].stage = "filtered"
    /\ requests[2].callback = "update_main_chart"
    /\ requests[2].args.selected_tickers # requests[1].args.selected_tickers
    /\ frames[2].rows # <<>>
    /\ frames[2] # Filter(df, requests[1].args)

\* C28: wherever the RSI of calculate_metrics is defined it is a number of
\* the closed range [0, 100].
C28_RsiWithinRange ==
    Ready =>
        \A j \in DOMAIN df :
            ~IsNaN(df[j].RSI) =>
                /\ IsNum(df[j].RSI)
                /\ ~FLess(df[j].RSI, Num(0))
                /\ ~FLess(Num(100), df[j].RSI)

\* one table with an RSI of 100 (no loss in the window) and an RSI strictly
\* inside the range
C28_Witness ==
    /\ Ready
    /\ \E j \in DOMAIN df : FEq(df[j].RSI, Num(100))
    /\ \E j \in DOMAIN df : FLess(Num(0), df[j].RSI) /\ FLess(df[j].RSI, Num(100))

\* the metrics row update_performance_metrics gives for ticker t, as a
\* sequence of one row or none
RowFor(answer, t) == SelectSeq(answer.value.rows, LAMBDA row : row.ticker = t)

\* the prices of ticker t within the date range of a request, by date
PricesInRange(table, t, args) ==
    LET rows == Sort_values(InRange(table, t, args))
    IN [i \in DOMAIN rows |-> <<rows[i].Date, rows[i].price>>]

\* C27: the performance metrics of a ticker over a date range use only the
\* ticker's prices inside the range: on two tables that agree on the
\* ticker's rows in range and differ in its prices before the range start,
\* total return, average daily return, volatility and max drawdown are the
\* same; a ticker with fewer than two rows in range has no metrics row; the
\* max drawdown shown is never positive.
C27_OnlyInRangePrices ==
    Ready =>
        \A r \in Slots :
            (AnsweredBy(r, "update_performance_metrics")
                /\ requests[r].args.selected_tickers # <<>>) =>
                LET args == requests[r].args
                    answer == requests[r].response
                    other == Performance_metrics(args, Filter(twin_df, args))
                IN \A i \in DOMAIN args.selected_tickers :
                      LET t == args.selected_tickers[i]
                      IN /\ PricesInRange(loaded, t, args) = PricesInRange(twin, t, args)
                            => RowFor(answer, t) = RowFor(other, t)
                         /\ Len(InRange(loaded, t, args)) < 2 => RowFor(answer, t) = <<>>
                         /\ \A k \in DOMAIN RowFor(answer, t) :
                               ~FLess(Num(0), RowFor(answer, t)[k].max_drawdown)

\* the part of C27 that holds: on such tables the total return, the start
\* and the end price are the same
C27_TotalReturnOnlyInRange ==
    Ready =>
        \A r \in Slots :
            (AnsweredBy(r, "update_performance_metrics")
                /\ requests[r].args.selected_tickers # <<>>) =>
                LET args == requests[r].args
                    answer == requests[r].response
                    other == Performance_metrics(args, Filter(twin_df, args))
                IN \A i \in DOMAIN args.selected_tickers :
                      LET t == args.selected_tickers[i]
                          mine == RowFor(answer, t)
                          theirs == RowFor(other, t)
                      IN PricesInRange(loaded, t, args) = PricesInRange(twin, t, args)
                            => /\ Len(mine) = Len(theirs)
                               /\ \A k \in DOMAIN mine :
                                     /\ mine[k].total_return = theirs[k].total_return
                                     /\ mine[k].start_price = theirs[k].start_price
                                     /\ mine[k].end_price = theirs[k].end_price

\* the two load operations of SalesPerformanceAnalysis
LoadOps == {"load_data_from_file", "load_data_from_sql"}
\* the step is a call of one of them
LoadAttempt == analysis' # None /\ analysis'.call.op \in LoadOps
AnalysisCall ==
    \/ MonthlySalesTrend
    \/ ProductCategoryAnalysis
    \/ RegionalSalesAnalysis
    \/ MarketingCampaignImpact
    \/ GenerateComprehensiveReport
RefusedBeforeAnyWork(outcome) ==
    /\ outcome.call.raised = "ValueError"
    /\ outcome.call.printed = ""
    /\ outcome.call.charts = {}
    /\ outcome.value = None
\* a file of an unsupported format, or no connection string: ValueError and
\* self.data as it was
LoadRefusedLeavesData ==
    /\ \A file \in ReloadFiles :
          file.extension \notin {".csv", ".xlsx", ".xls"}
          => LET load == Load_data_from_file(file, data)
             IN load.call.raised = "ValueError" /\ load.data = data
    /\ \A result \in SqlResults :
          LET load == Load_data_from_sql("", result, data)
          IN load.call.raised = "ValueError" /\ load.data = data

\* C22: self.data is None from construction until a load succeeds; while it
\* is None each of the four analyses and the report raises ValueError
\* before computing or writing anything; a load from a file of an
\* unsupported format or without a connection string raises ValueError and
\* leaves self.data as it was.
C22_NoneUntilLoadSucceeds ==
    /\ [][program = "sales_analysis" /\ data = None /\ LoadAttempt
          => (data' # None <=> analysis'.call.raised = "none")]_vars
    /\ [][program = "sales_analysis" /\ data = None /\ AnalysisCall
          => RefusedBeforeAnyWork(analysis')]_vars
    /\ [](program = "sales_analysis" => LoadRefusedLeavesData)

\* the part of C22 that is about the calls made while self.data is None and
\* about the two refused loads
C22_RefusalsWhileNone ==
    /\ [][program = "sales_analysis" /\ data = None /\ AnalysisCall
          => RefusedBeforeAnyWork(analysis')]_vars
    /\ [](program = "sales_analysis" => LoadRefusedLeavesData)

\* self.data holds a table that _prepare_data has run on to its end
FullyPrepared(table) ==
    /\ \A i \in DOMAIN table.rows :
          /\ "campaign_id" \in table.columns => table.rows[i].campaign_id # NullCell
          /\ "region" \in table.columns => table.rows[i].region # NullCell
    /\ {"quantity", "price"} \subseteq table.columns => "sales_amount" \in table.columns
\* a load that succeeds keeps the sales_amount the source supplied
SuppliedAmountKept ==
    \A file \in ReloadFiles :
        LET load == Load_data_from_file(file, data)
        IN load.call.raised = "none" /\ "sales_amount" \in file.table.columns
           => \A i \in DOMAIN file.table.rows :
                 load.data.rows[i].sales_amount = file.table.rows[i].sales_amount

\* C23: after any sequence of load attempts, a self.data that is not None is
\* fully prepared: no missing campaign_id or region, a sales_amount whenever
\* quantity and price exist, and a supplied sales_amount is never replaced.
C23_LoadedDataIsPrepared ==
    program = "sales_analysis"
    => /\ data # None => FullyPrepared(data)
       /\ SuppliedAmountKept

\* the same, for the data of a load that returned without raising
C23_SuccessfulLoadIsPrepared ==
    [][program = "sales_analysis" /\ LoadAttempt /\ analysis'.call.raised = "none"
       => FullyPrepared(data')]_vars

\* what main() has printed, by stage: 1 exploration, 2 basic sales analysis,
\* 3 enhanced analysis, 4 the final message
StageOf(entry) ==
    CASE entry = "Loading data from" -> 0
      [] entry \in {"DATA EXPLORATION", "Error during data exploration"} -> 1
      [] entry \in {"Running main sales performance analysis...",
                    "Basic sales analysis complete",
                    "Error during sales performance analysis"} -> 2
      [] entry \in {"Running enhanced sales analysis...",
                    "Enhanced analysis complete",
                    "Error during enhanced sales analysis"} -> 3
      [] entry = "Analysis complete!" -> 4
Printed(entry) == \E i \in DOMAIN run.log : run.log[i] = entry
StagesInOrder ==
    \A i, j \in DOMAIN run.log : i < j => StageOf(run.log[i]) <= StageOf(run.log[j])
ExplorationFailureEndsRun ==
    Printed("Error during data exploration")
    => /\ run.pc = "returned"
       /\ \A i \in DOMAIN run.log : StageOf(run.log[i]) <= 1
LaterFailureIsSkipped ==
    /\ Printed("Error during sales performance analysis") /\ run.pc = "returned"
       => Printed("Running enhanced sales analysis...") /\ Printed("Analysis complete!")
    /\ Printed("Error during enhanced sales analysis") /\ run.pc = "returned"
       => Printed("Analysis complete!")
CompleteIffExplored ==
    /\ Printed("Analysis complete!") => run.pc = "returned"
    /\ run.pc = "returned"
       => (Printed("Analysis complete!") <=> Printed("DATA EXPLORATION"))
\* a stage that raised prints its error message, one that did not prints its
\* completion message
FailureIsReported ==
    /\ run.pc = "exploration" /\ run'.pc # "exploration"
       => (run.file.found <=> ~Printed("Error during data exploration")')
    /\ run.pc = "basic_charts" /\ run'.pc = "enhanced"
       => (run.raised # "none" <=> Printed("Error during sales performance analysis")')
    /\ run.pc = "enhanced_charts" /\ run'.pc = "returned"
       => (run.raised # "none" <=> Printed("Error during enhanced sales analysis")')

C21_ExplorationFailed ==
    /\ program = "analyze_new_retail_data"
    /\ run.pc = "returned"
    /\ Printed("Error during data exploration")
C21_BasicCompleted ==
    program = "analyze_new_retail_data" /\ Printed("Basic sales analysis complete")
C21_EnhancedFailed ==
    program = "analyze_new_retail_data" /\ Printed("Error during enhanced sales analysis")

Cleaned == program = "clean_retail_data" /\ cleaning.returned # None
NoTwoRowsAlike(table) ==
    \A i, j \in DOMAIN table.rows : i < j => table.rows[i] # table.rows[j]

\* C24: for every input, the table that clean_retail_data returns and saves
\* has no two identical rows.
C24_NoDuplicateRows ==
    Cleaned => NoTwoRowsAlike(cleaning.returned) /\ NoTwoRowsAlike(cleaning.saved)

\* the table has no two identical rows when it reaches the outlier step
C24_NoDuplicateRowsBeforeCapping ==
    Cleaned => NoTwoRowsAlike(Before_capping(cleaning.input))

Within(value, bounds) ==
    /\ IsNum(value)
    /\ ~FLess(value, bounds.lower)
    /\ ~FLess(bounds.upper, value)
CappedHere(table) == {CappedColumns[c] : c \in DOMAIN CappedColumns} \cap table.columns

\* C25: outlier capping keeps the number of rows; afterwards every price,
\* quantity and sales_amount lies within [Q1 - 1.5 IQR, Q3 + 1.5 IQR] of its
\* column as it was before capping, and a value that was inside is unchanged.
C25_CappedWithinBounds ==
    Cleaned
    => LET before == Before_capping(cleaning.input)
           after == cleaning.returned
       IN /\ Len(after.rows) = Len(before.rows)
          /\ \A col \in CappedHere(before) :
                LET bounds == Iqr_bounds(Column(before, col))
                IN \A i \in DOMAIN before.rows :
                      /\ Within(after.rows[i][col], bounds)
                      /\ Within(before.rows[i][col], bounds)
                         => FEq(after.rows[i][col], before.rows[i][col])
\* a column with a real spread in which one value was capped on each side
\* of values left as they were
C25_Witness ==
    /\ Cleaned
    /\ LET before == Before_capping(cleaning.input)
           after == cleaning.returned
       IN \E col \in CappedHere(before) :
             LET bounds == Iqr_bounds(Column(before, col))
             IN /\ FLess(bounds.lower, bounds.upper)
                /\ \E i \in DOMAIN before.rows :
                      /\ FLess(bounds.upper, before.rows[i][col])
                      /\ FEq(after.rows[i][col], bounds.upper)
                /\ \E i \in DOMAIN before.rows :
                      /\ FLess(bounds.lower, before.rows[i][col])
                      /\ FLess(before.rows[i][col], bounds.upper)
C25_LowSideCapped ==
    /\ Cleaned
    /\ LET before == Before_capping(cleaning.input)
       IN \E col \in CappedHere(before), i \in DOMAIN before.rows :
             /\ FLess(before.rows[i][col], Iqr_bounds(Column(before, col)).lower)
             /\ FEq(cleaning.returned.rows[i][col], Iqr_bounds(Column(before, col)).lower)

\* C26: when the input has quantity and price and no sales_amount, every
\* cleaned row has sales_amount = quantity * price.
C26_AmountIsQuantityTimesPrice ==
    /\ Cleaned
    /\ {"quantity", "price"} \subseteq cleaning.input.columns
    /\ "sales_amount" \notin cleaning.input.columns
    => \A i \in DOMAIN cleaning.returned.rows :
          LET row == cleaning.returned.rows[i]
          IN FEq(row.sales_amount, FMul(row.quantity, row.price))

\* the same equation on the table as it reaches the outlier step
C26_AmountDerivedBeforeCapping ==
    /\ Cleaned
    /\ {"quantity", "price"} \subseteq cleaning.input.columns
    /\ "sales_amount" \notin cleaning.input.columns
    => LET before == Before_capping(cleaning.input)
       IN \A i \in DOMAIN before.rows :
             FEq(before.rows[i].sales_amount,
                 FMul(before.rows[i].quantity, before.rows[i].price))

Answered == program = "sentiment_app" /\ sentiments.response # None

\* C29: every comment returned by get_reddit_comments gets one label, in
\* input order: 'positive' when compound >= 0.05, 'negative' when compound
\* <= -0.05, 'neutral' otherwise; pos + neg + neu = total = the number of
\* comments returned, which is at most the limit for any limit >= 0.
C29_OneLabelPerComment ==
    Answered /\ sentiments.limit >= 0
    => LET answer == sentiments.response
           Labelled(label) ==
               {i \in DOMAIN answer.analyzed_data : answer.analyzed_data[i].sentiment = label}
       IN /\ Len(answer.analyzed_data) = Len(answer.comments)
          /\ \A i \in DOMAIN answer.comments :
                /\ answer.analyzed_data[i].text = answer.comments[i].text
                /\ answer.analyzed_data[i].sentiment =
                      CASE 10 * answer.comments[i].compound >= 5000 -> "positive"
                        [] 10 * answer.comments[i].compound <= -5000 -> "negative"
                        [] OTHER -> "neutral"
          /\ answer.pos = Cardinality(Labelled("positive"))
          /\ answer.neg = Cardinality(Labelled("negative"))
          /\ answer.neu = Cardinality(Labelled("neutral"))
          /\ answer.pos + answer.neg + answer.neu = answer.total
          /\ answer.total = Len(answer.comments)
          /\ answer.total <= sentiments.limit
\* more comments were found than asked for, and the ones kept carry all
\* three labels' boundary scores
C29_Witness ==
    /\ Answered
    /\ sentiments.limit = 2
    /\ Len(Collect(sentiments.found, 1)) > 2
    /\ sentiments.response.total = 2
    /\ sentiments.response.pos = 1
    /\ sentiments.response.neg = 1
    /\ \E i \in DOMAIN sentiments.response.comments :
          sentiments.response.comments[i].compound = Threshold
C29_ZeroLimit ==
    /\ Answered
    /\ sentiments.limit = 0
    /\ Len(sentiments.found) > 0
    /\ sentiments.response.total = 0

Predicted == program = "healthcare_analysis" /\ prediction.input_df # None
\* the texts that are numbers
NumberEntries == {"0", "45"}

\* C30: the row passed to model.predict has exactly the training columns
\* X.columns, and for every selected numeric feature its value is the one
\* the user entered.
C30_RowHoldsEnteredValues ==
    Predicted
    => /\ prediction.input_df.columns = prediction.X
       /\ \A i \in DOMAIN prediction.X :
             LET column == prediction.X[i]
             IN ~column.dummy /\ prediction.user_input[column.name] \in NumberEntries
                => prediction.input_df.row[i] = prediction.user_input[column.name]

\* the first part of C30: the row has the training columns, in their order
C30_RowHasTrainingColumns ==
    Predicted
    => /\ prediction.input_df.columns = prediction.X
       /\ Len(prediction.input_df.row) = Len(prediction.X)

====
